---- MODULE Spec2Model ----
(***************************************************************************)
(* Model of the gateway's connection / authorization / hook-dispatch core  *)
(* (gateway server core: authorizeCanvasRequest, createHooksRequestHandler *)
(* and its auth-failure limiter).                                          *)
(***************************************************************************)
EXTENDS Integers, Sequences, FiniteSets, TLC

VARIABLES
  clients,              \* Set<GatewayWsClient>: the live gateway websocket clients
  gatewayBlocked,       \* AuthRateLimiter state: the client keys it currently blocks
  canvasLast,           \* the last authorizeCanvasRequest call: request and outcome
  fallbackLapsed,       \* the client IPs whose last node client left the set and has
                        \* not been followed by another one, kept by an observer
  hookAuthFailures,     \* Map<string, HookAuthFailure>, in insertion order
  nowMs,                \* Date.now()
  hookCalls,            \* the hooks handler's calls in progress, per slot
  limiterLast,          \* the last recordHookAuthFailure / clearHookAuthFailure call
  wrongTokenRuns,       \* per client key: its current run of wrong-token hook requests
  lastFailureSeq,       \* per client key: the number of its latest direct
                        \* recordHookAuthFailure call (0: none), kept by an observer
  routerOpts,           \* the options createBunGatewayHandlers was given
  routerCalls,          \* the ordinary requests fetch is handling, per slot
  scopeCall,            \* the last method-scope lookup: method, result and verdict
  sockets,              \* Bun's server websockets: ws.data of each one
  wssClients,           \* BunWebSocketServer.clients: Set<BunWs>
  wsLast,               \* the last websocket callback and the events it emitted
  upgradeLast,          \* the websocket upgrade request fetch is answering
  canvasClients,        \* the canvas host's live-reload sockets
  shimCall,             \* a response shim and the end() calls made on it
  argvCall,             \* the last validateSafeBinArgv call and its verdict
  chatRuns,             \* chatRunState.registry: the runs queued per session id
  chatLast,             \* the last addChatRun / removeChatRun call
  dedupe,               \* DedupeEntry per connection: last state version delivered per topic
  broadcastLast,        \* the last broadcast call and the connections it reached
  toolState             \* the embedded subscriber's ctx.state for tool events

canvasVars == <<clients, gatewayBlocked, canvasLast, fallbackLapsed>>

hookVars == <<hookAuthFailures, nowMs, hookCalls, limiterLast, wrongTokenRuns,
              lastFailureSeq>>

routerVars == <<routerOpts, routerCalls>>

scopeVars == <<scopeCall>>

wsVars == <<sockets, wssClients, wsLast, upgradeLast, canvasClients>>

chatVars == <<chatRuns, chatLast>>

broadcastVars == <<dedupe, broadcastLast>>

toolVars == <<toolState>>

shimVars == <<shimCall>>

argvVars == <<argvCall>>

\* The state outside the HTTP handlers.
auxVars == <<scopeVars, wsVars, chatVars, broadcastVars, toolVars, shimVars, argvVars>>

vars == <<clients, gatewayBlocked, canvasLast, fallbackLapsed, hookAuthFailures, nowMs, hookCalls,
          limiterLast, wrongTokenRuns, lastFailureSeq, routerOpts, routerCalls,
          scopeCall, sockets, wssClients, wsLast, upgradeLast, canvasClients, shimCall, argvCall, chatRuns, chatLast, dedupe,
          broadcastLast, toolState>>

(***************************************************************************)
(* Addresses, headers and tokens of the modelled environment               *)
(***************************************************************************)
NoAddr == ""                   \* req.socket?.remoteAddress undefined / header absent
LoopbackAddr == "127.0.0.1"
PrivateAddr == "192.168.1.20"
ProxyAddr == "10.0.0.2"        \* the configured trusted proxy (a private address)
PublicAddr == "203.0.113.7"

TrustedProxies == {ProxyAddr}  \* configSnapshot.gateway?.trustedProxies

NoToken == ""                  \* no Authorization: Bearer header
GatewayToken == "gw-secret"    \* the configured gateway secret
WrongToken == "gw-wrong"

RemoteAddrs == {NoAddr, LoopbackAddr, PrivateAddr, ProxyAddr, PublicAddr}
ForwardedForValues == {NoAddr, LoopbackAddr, PrivateAddr, PublicAddr}
RealIpValues == {NoAddr, PrivateAddr}
BearerTokens == {NoToken, GatewayToken, WrongToken}

CanvasRequests ==
  [remoteAddress : RemoteAddrs, forwardedFor : ForwardedForValues,
   realIp : RealIpValues, token : BearerTokens]

\* The retryAfterMs the rate limiter reports for a blocked key.
GatewayRetryAfterMs == 60 * 1000

(***************************************************************************)
(* Collaborators of authorizeCanvasRequest (net, auth, http-utils)         *)
(***************************************************************************)
isLoopbackAddress(ip) == ip = LoopbackAddr

isPrivateOrLoopbackAddress(ip) == ip \in {LoopbackAddr, PrivateAddr, ProxyAddr}

isTrustedProxyAddress(ip, trustedProxies) == ip # NoAddr /\ ip \in trustedProxies

getBearerToken(req) == req.token

resolveGatewayClientIp(remoteAddr, forwardedFor, realIp, trustedProxies) ==
  IF remoteAddr = NoAddr THEN NoAddr
  ELSE IF ~isTrustedProxyAddress(remoteAddr, trustedProxies) THEN remoteAddr
  ELSE IF forwardedFor # NoAddr THEN forwardedFor
  ELSE IF realIp # NoAddr THEN realIp
  ELSE remoteAddr

hasProxyHeaders(req) == req.forwardedFor # NoAddr \/ req.realIp # NoAddr

isLocalDirectRequest(req, trustedProxies) ==
  /\ isLoopbackAddress(resolveGatewayClientIp(req.remoteAddress, req.forwardedFor,
                                              req.realIp, trustedProxies))
  /\ (~hasProxyHeaders(req) \/ isTrustedProxyAddress(req.remoteAddress, trustedProxies))

\* GatewayAuthResult; absent optional fields are "", FALSE and 0.
AuthResult(ok, method, reason, rateLimited, retryAfterMs) ==
  [ok |-> ok, method |-> method, reason |-> reason,
   rateLimited |-> rateLimited, retryAfterMs |-> retryAfterMs]

AuthOk == AuthResult(TRUE, "", "", FALSE, 0)

AuthUnauthorized == AuthResult(FALSE, "", "unauthorized", FALSE, 0)

\* The limiter key of a request (its remote address).
gatewayClientKey(req) == req.remoteAddress

\* authorizeGatewayConnect with a token credential. A matching token authorizes
\* and resets the key in the limiter. A mismatch records a failure: the result
\* is rate_limited when the key is blocked, or when this failure takes the key
\* over the limiter's (configurable) policy, which is the limiter's verdict
\* `tips`; otherwise it is token_mismatch.
authorizeGatewayConnect(token, key, blocked, tips) ==
  IF token = GatewayToken
  THEN [result |-> AuthResult(TRUE, "token", "", FALSE, 0),
        blocked |-> blocked \ {key}]
  ELSE IF key \in blocked \/ tips
  THEN [result |-> AuthResult(FALSE, "", "rate_limited", TRUE, GatewayRetryAfterMs),
        blocked |-> blocked \cup {key}]
  ELSE [result |-> AuthResult(FALSE, "", "token_mismatch", FALSE, 0),
        blocked |-> blocked]

(***************************************************************************)
(* authorizeCanvasRequest and its helpers                                  *)
(***************************************************************************)
GATEWAY_CLIENT_MODE_NODE == "node"

\* trim + lower-case + membership in the known modes; "" is undefined.
normalizeGatewayClientMode(mode) ==
  CASE mode \in {"node", "NODE"} -> "node"
    [] mode \in {"cli", "CLI"} -> "cli"
    [] OTHER -> ""

\* Mutant: only the negotiated role counts, the client mode is ignored.
isNodeWsClient_RoleOnly(client) == client.role = "node"

isNodeWsClient(client) ==
  IF client.role = "node" THEN TRUE
  ELSE normalizeGatewayClientMode(client.mode) = GATEWAY_CLIENT_MODE_NODE

\* Mutant: any client of the set with that address counts, node or not.
hasAuthorizedNodeWsClientForIp_AnyClient(cls, clientIp) ==
  \E client \in cls : client.clientIp # NoAddr /\ client.clientIp = clientIp

hasAuthorizedNodeWsClientForIp(cls, clientIp) ==
  \E client \in cls :
    client.clientIp # NoAddr /\ client.clientIp = clientIp /\ isNodeWsClient(client)

\* Mutant: the fallback without the private-or-loopback guard.
canvasIpFallback_AnyAddress(req, cls, trustedProxies) ==
  LET clientIp == resolveGatewayClientIp(req.remoteAddress, req.forwardedFor,
                                         req.realIp, trustedProxies)
      remoteIsTrustedProxy == isTrustedProxyAddress(req.remoteAddress, trustedProxies)
  IN IF clientIp = NoAddr THEN FALSE
     ELSE IF hasProxyHeaders(req) /\ ~remoteIsTrustedProxy THEN FALSE
     ELSE hasAuthorizedNodeWsClientForIp(cls, clientIp)

\* Lines 207-230: the IP-based fallback, TRUE when it authorizes the request.
canvasIpFallback(req, cls, trustedProxies) ==
  LET clientIp == resolveGatewayClientIp(req.remoteAddress, req.forwardedFor,
                                         req.realIp, trustedProxies)
      remoteIsTrustedProxy == isTrustedProxyAddress(req.remoteAddress, trustedProxies)
  IN IF clientIp = NoAddr THEN FALSE
     ELSE IF ~isPrivateOrLoopbackAddress(clientIp) THEN FALSE
     ELSE IF hasProxyHeaders(req) /\ ~remoteIsTrustedProxy THEN FALSE
     ELSE hasAuthorizedNodeWsClientForIp(cls, clientIp)

\* What an authorizeCanvasRequest call leaves: its result, the limiter state,
\* whether authorizeGatewayConnect was called and what it returned.
CanvasOutcome(result, blocked, consulted, gateway) ==
  [result |-> result, blocked |-> blocked, consulted |-> consulted, gateway |-> gateway]

\* Mutant: the bearer token is checked before the local-direct test.
authorizeCanvasRequest_TokenFirst(req, cls, blocked, tips) ==
  LET token == getBearerToken(req)
      gw == authorizeGatewayConnect(token, gatewayClientKey(req), blocked, tips)
  IN IF token # NoToken /\ gw.result.ok
     THEN CanvasOutcome(gw.result, gw.blocked, TRUE, gw.result)
     ELSE IF token # NoToken
     THEN CanvasOutcome(IF isLocalDirectRequest(req, TrustedProxies)
                           \/ canvasIpFallback(req, cls, TrustedProxies)
                        THEN AuthOk ELSE gw.result, gw.blocked, TRUE, gw.result)
     ELSE CanvasOutcome(IF isLocalDirectRequest(req, TrustedProxies)
                           \/ canvasIpFallback(req, cls, TrustedProxies)
                        THEN AuthOk ELSE AuthUnauthorized, blocked, FALSE, AuthUnauthorized)

\* Mutant: a rejected bearer token denies the request at once.
authorizeCanvasRequest_ShortCircuit(req, cls, blocked, tips) ==
  IF isLocalDirectRequest(req, TrustedProxies)
  THEN CanvasOutcome(AuthOk, blocked, FALSE, AuthUnauthorized)
  ELSE LET token == getBearerToken(req)
           gw == authorizeGatewayConnect(token, gatewayClientKey(req), blocked, tips)
       IN IF token # NoToken
          THEN CanvasOutcome(gw.result, gw.blocked, TRUE, gw.result)
          ELSE CanvasOutcome(IF canvasIpFallback(req, cls, TrustedProxies)
                             THEN AuthOk ELSE AuthUnauthorized,
                             blocked, FALSE, AuthUnauthorized)

\* Mutant: a denial forgets the token failure and always says 'unauthorized'.
authorizeCanvasRequest_DropsFailure(req, cls, blocked, tips) ==
  IF isLocalDirectRequest(req, TrustedProxies)
  THEN CanvasOutcome(AuthOk, blocked, FALSE, AuthUnauthorized)
  ELSE LET token == getBearerToken(req)
           gw == authorizeGatewayConnect(token, gatewayClientKey(req), blocked, tips)
       IN IF token # NoToken /\ gw.result.ok
          THEN CanvasOutcome(gw.result, gw.blocked, TRUE, gw.result)
          ELSE CanvasOutcome(IF canvasIpFallback(req, cls, TrustedProxies)
                             THEN AuthOk ELSE AuthUnauthorized,
                             IF token # NoToken THEN gw.blocked ELSE blocked,
                             token # NoToken,
                             IF token # NoToken THEN gw.result ELSE AuthUnauthorized)

\* authorizeCanvasRequest (lines 176-231).
authorizeCanvasRequest(req, cls, blocked, tips) ==
  IF isLocalDirectRequest(req, TrustedProxies)
  THEN CanvasOutcome(AuthOk, blocked, FALSE, AuthUnauthorized)
  ELSE LET token == getBearerToken(req)
           gw == authorizeGatewayConnect(token, gatewayClientKey(req), blocked, tips)
           hasFailure == token # NoToken /\ ~gw.result.ok
           lastAuthFailure == gw.result
           denial == IF hasFailure THEN lastAuthFailure ELSE AuthUnauthorized
       IN IF token # NoToken /\ gw.result.ok
          THEN CanvasOutcome(gw.result, gw.blocked, TRUE, gw.result)
          ELSE CanvasOutcome(IF canvasIpFallback(req, cls, TrustedProxies)
                             THEN AuthOk ELSE denial,
                             IF token # NoToken THEN gw.blocked ELSE blocked,
                             token # NoToken,
                             IF token # NoToken THEN gw.result ELSE AuthUnauthorized)

(***************************************************************************)
(* Router (createBunGatewayHandlers.fetch): options, requests and calls     *)
(***************************************************************************)
\* The options that decide which stages exist.
RouterOpts(plugin, openResponses, openAi, canvas, controlUi) ==
  [handlePluginRequest |-> plugin, openResponsesEnabled |-> openResponses,
   openAiChatCompletionsEnabled |-> openAi, canvasHost |-> canvas,
   controlUiEnabled |-> controlUi]

AllRouterOpts == RouterOpts(TRUE, TRUE, TRUE, TRUE, TRUE)

RouterOptsChoices ==
  {AllRouterOpts, RouterOpts(FALSE, FALSE, FALSE, FALSE, FALSE),
   RouterOpts(TRUE, FALSE, TRUE, FALSE, FALSE), RouterOpts(FALSE, TRUE, FALSE, TRUE, TRUE)}

\* url.pathname as its segments ("" after a trailing slash).
A2UI_PATH == <<"__openclaw__", "a2ui">>
CANVAS_HOST_PATH == <<"__openclaw__", "canvas">>
CANVAS_WS_PATH == <<"__openclaw__", "ws">>
CHANNELS_PREFIX == <<"api", "channels">>

RouterPaths == {<<"api", "channels", "slack">>, <<"api", "channels">>,
                <<"__openclaw__", "canvas", "index.html">>, <<"__openclaw__", "a2ui">>,
                <<"__openclaw__", "ws">>, <<"status">>}

\* pathname.startsWith(`${prefix}/`).
pathStartsWithDir(pathname, prefix) ==
  Len(pathname) > Len(prefix) /\ SubSeq(pathname, 1, Len(prefix)) = prefix

\* Mutant: the A2UI path is not taken for a canvas path.
isCanvasPath_NoA2ui(pathname) ==
  \/ pathname = CANVAS_HOST_PATH
  \/ pathStartsWithDir(pathname, CANVAS_HOST_PATH)
  \/ pathname = CANVAS_WS_PATH

\* isCanvasPath (lines 150-158).
isCanvasPath(pathname) ==
  \/ pathname = A2UI_PATH
  \/ pathStartsWithDir(pathname, A2UI_PATH)
  \/ pathname = CANVAS_HOST_PATH
  \/ pathStartsWithDir(pathname, CANVAS_HOST_PATH)
  \/ pathname = CANVAS_WS_PATH

\* The steps of the try block of lines 646-745, in program order.
RouterStages ==
  <<"config", "hooks", "tools", "slack", "pluginAuth", "plugin", "openresponses", "openai",
    "canvasAuth", "a2ui", "canvasHost", "avatar", "controlUi">>

RouterAuthStages == {"pluginAuth", "canvasAuth"}

\* The conditions under which the code reaches a step's call.
routerStageApplies(stage, opts, pathname) ==
  CASE stage = "pluginAuth" ->
         opts.handlePluginRequest /\ pathStartsWithDir(pathname, CHANNELS_PREFIX)
    [] stage = "plugin" -> opts.handlePluginRequest
    [] stage = "openresponses" -> opts.openResponsesEnabled
    [] stage = "openai" -> opts.openAiChatCompletionsEnabled
    [] stage = "canvasAuth" -> opts.canvasHost /\ isCanvasPath(pathname)
    [] stage \in {"a2ui", "canvasHost"} -> opts.canvasHost
    [] stage \in {"avatar", "controlUi"} -> opts.controlUiEnabled
    [] OTHER -> TRUE

\* The response shim: hasResolved, statusCode, and the status of the Response
\* the fetch promise resolved to (0: not resolved).
RouterShim(hasResolved, statusCode, response) ==
  [hasResolved |-> hasResolved, statusCode |-> statusCode, response |-> response]

NewRouterShim == RouterShim(FALSE, 200, 0)

\* Mutant: end() resolves again, the last call decides the response.
routerEnd_LastWins(res, status) == RouterShim(TRUE, status, status)

\* pseudoRes.statusCode = status; pseudoRes.end(...) (lines 633-643).
routerEnd(res, status) ==
  IF res.hasResolved THEN [res EXCEPT !.statusCode = status]
  ELSE RouterShim(TRUE, status, status)

\* A call of fetch for an ordinary request: where it stands (idle, run, done),
\* the index of the next step, the steps invoked so far with what they
\* returned, and the response shim.
RouterCall(pc, pathname, next, invoked, res) ==
  [pc |-> pc, pathname |-> pathname, next |-> next, invoked |-> invoked, res |-> res]

IdleRouterCall == RouterCall("idle", <<>>, 1, <<>>, NewRouterShim)

RouterSlots == {1, 2}

\* The statuses a stage ends the response with.
ShimStatuses == {200, 202, 400, 404}

\* The number of end() calls followed on one shim.
MaxShimEnds == 3

\* One request's shim: idle, run (stages are running) or done (the async
\* function is over), the shim, and the status of each end() call made on it
\* or, for the router's fallbacks, reached.
ShimCall(pc, res, ends) == [pc |-> pc, res |-> res, ends |-> ends]

IdleShimCall == ShimCall("idle", NewRouterShim, <<>>)

(***************************************************************************)
(* Method scope table (gateway/method-scopes.ts)                           *)
(* A method name is the sequence of its dot-separated segments:            *)
(* "config.get" is <<"config", "get">>.                                    *)
(***************************************************************************)
ADMIN_SCOPE == "operator.admin"
READ_SCOPE == "operator.read"
WRITE_SCOPE == "operator.write"
APPROVALS_SCOPE == "operator.approvals"
PAIRING_SCOPE == "operator.pairing"

OperatorScope == {ADMIN_SCOPE, READ_SCOPE, WRITE_SCOPE, APPROVALS_SCOPE, PAIRING_SCOPE}

APPROVAL_METHODS ==
  { <<"exec", "approval", "request">>,
    <<"exec", "approval", "waitDecision">>,
    <<"exec", "approval", "resolve">> }

NODE_ROLE_METHODS ==
  { <<"node", "invoke", "result">>,
    <<"node", "event">>,
    <<"skills", "bins">> }

PAIRING_METHODS ==
  { <<"node", "pair", "request">>,
    <<"node", "pair", "list">>,
    <<"node", "pair", "approve">>,
    <<"node", "pair", "reject">>,
    <<"node", "pair", "verify">>,
    <<"device", "pair", "list">>,
    <<"device", "pair", "approve">>,
    <<"device", "pair", "reject">>,
    <<"device", "pair", "remove">>,
    <<"device", "token", "rotate">>,
    <<"device", "token", "revoke">>,
    <<"node", "rename">> }

\* A prefix ends in a dot: "exec.approvals." is written <<"exec", "approvals">>.
ADMIN_METHOD_PREFIXES == { <<"exec", "approvals">> }

READ_METHODS ==
  { <<"health">>,
    <<"logs", "tail">>,
    <<"channels", "status">>,
    <<"status">>,
    <<"usage", "status">>,
    <<"usage", "cost">>,
    <<"tts", "status">>,
    <<"tts", "providers">>,
    <<"models", "list">>,
    <<"agents", "list">>,
    <<"agent", "identity", "get">>,
    <<"skills", "status">>,
    <<"voicewake", "get">>,
    <<"sessions", "list">>,
    <<"sessions", "preview">>,
    <<"cron", "list">>,
    <<"cron", "status">>,
    <<"cron", "runs">>,
    <<"system-presence">>,
    <<"last-heartbeat">>,
    <<"node", "list">>,
    <<"node", "describe">>,
    <<"chat", "history">>,
    <<"config", "get">>,
    <<"talk", "config">> }

WRITE_METHODS ==
  { <<"send">>,
    <<"agent">>,
    <<"agent", "wait">>,
    <<"wake">>,
    <<"talk", "mode">>,
    <<"tts", "enable">>,
    <<"tts", "disable">>,
    <<"tts", "convert">>,
    <<"tts", "setProvider">>,
    <<"voicewake", "set">>,
    <<"node", "invoke">>,
    <<"chat", "send">>,
    <<"chat", "abort">>,
    <<"browser", "request">>,
    <<"push", "test">> }

ADMIN_METHODS ==
  { <<"channels", "logout">>,
    <<"agents", "create">>,
    <<"agents", "update">>,
    <<"agents", "delete">>,
    <<"skills", "install">>,
    <<"skills", "update">>,
    <<"cron", "add">>,
    <<"cron", "update">>,
    <<"cron", "remove">>,
    <<"cron", "run">>,
    <<"sessions", "patch">>,
    <<"sessions", "reset">>,
    <<"sessions", "delete">>,
    <<"sessions", "compact">> }

\* method.startsWith(prefix) for a prefix that ends in a dot: the prefix's
\* segments lead the name and at least one more segment (maybe empty) follows.
methodStartsWith(method, prefix) ==
  /\ Len(method) > Len(prefix)
  /\ SubSeq(method, 1, Len(prefix)) = prefix

isApprovalMethod(method) == method \in APPROVAL_METHODS

isPairingMethod(method) == method \in PAIRING_METHODS

isReadMethod(method) == method \in READ_METHODS

isWriteMethod(method) == method \in WRITE_METHODS

isNodeRoleMethod(method) == method \in NODE_ROLE_METHODS

isAdminOnlyMethod(method) ==
  IF \E prefix \in ADMIN_METHOD_PREFIXES : methodStartsWith(method, prefix) THEN TRUE
  ELSE IF \/ methodStartsWith(method, <<"config">>)
          \/ methodStartsWith(method, <<"wizard">>)
          \/ methodStartsWith(method, <<"update">>)
       THEN TRUE
  ELSE method \in ADMIN_METHODS

resolveLeastPrivilegeOperatorScopesForMethod_AdminFirst(method) ==
  IF isAdminOnlyMethod(method) THEN <<ADMIN_SCOPE>>
  ELSE IF isApprovalMethod(method) THEN <<APPROVALS_SCOPE>>
  ELSE IF isPairingMethod(method) THEN <<PAIRING_SCOPE>>
  ELSE IF isReadMethod(method) THEN <<READ_SCOPE>>
  ELSE IF isWriteMethod(method) THEN <<WRITE_SCOPE>>
  ELSE <<>>

resolveLeastPrivilegeOperatorScopesForMethod_NodeRoleRead(method) ==
  IF isApprovalMethod(method) THEN <<APPROVALS_SCOPE>>
  ELSE IF isPairingMethod(method) THEN <<PAIRING_SCOPE>>
  ELSE IF isReadMethod(method) \/ isNodeRoleMethod(method) THEN <<READ_SCOPE>>
  ELSE IF isWriteMethod(method) THEN <<WRITE_SCOPE>>
  ELSE IF isAdminOnlyMethod(method) THEN <<ADMIN_SCOPE>>
  ELSE <<>>

resolveLeastPrivilegeOperatorScopesForMethod(method) ==
  IF isApprovalMethod(method) THEN <<APPROVALS_SCOPE>>
  ELSE IF isPairingMethod(method) THEN <<PAIRING_SCOPE>>
  ELSE IF isReadMethod(method) THEN <<READ_SCOPE>>
  ELSE IF isWriteMethod(method) THEN <<WRITE_SCOPE>>
  ELSE IF isAdminOnlyMethod(method) THEN <<ADMIN_SCOPE>>
  ELSE <<>>

\* A connection may invoke a method iff its granted scopes meet the required ones.
scopesPermit(granted, required) ==
  \E i \in 1..Len(required) : required[i] \in granted

\* The predicates of the table a method name satisfies.
methodClasses(method) ==
  { class \in {"approval", "pairing", "read", "write", "admin"} :
      \/ class = "approval" /\ isApprovalMethod(method)
      \/ class = "pairing" /\ isPairingMethod(method)
      \/ class = "read" /\ isReadMethod(method)
      \/ class = "write" /\ isWriteMethod(method)
      \/ class = "admin" /\ isAdminOnlyMethod(method) }

\* Names in none of the sets: reserved namespaces, near misses and strangers.
UnlistedMethodNames ==
  { <<"config", "set">>, <<"config", "patch">>, <<"config", "">>, <<"config">>,
    <<"wizard", "start">>, <<"update", "run">>,
    <<"exec", "approvals", "get">>, <<"exec", "approvals", "set">>,
    <<"exec", "approvals">>, <<"exec", "approval", "list">>,
    <<"configx", "get">>, <<"HEALTH">>, <<"sessions", "list", "all">>,
    <<"unknown", "method">>, <<>> }

MethodNames ==
  APPROVAL_METHODS \cup NODE_ROLE_METHODS \cup PAIRING_METHODS \cup READ_METHODS
    \cup WRITE_METHODS \cup ADMIN_METHODS \cup UnlistedMethodNames

\* The scope sets a connection may have been granted.
GrantedScopeSets == SUBSET OperatorScope

ScopeCall(op, method, required, granted, permitted) ==
  [op |-> op, method |-> method, required |-> required, granted |-> granted,
   permitted |-> permitted]

NoScopeCall == ScopeCall("none", <<>>, <<>>, {}, FALSE)

(***************************************************************************)
(* BunWebSocketServer and the websocket callbacks of Bun.serve             *)
(***************************************************************************)
\* The server websockets Bun may hand to the callbacks.
SocketIds == {1, 2, 3}

\* data.shim before handleOpen has set it.
NoShim == 0

\* new BunWs(rawWs): one shim per raw socket, known by the socket it wraps.
BunWs(rawWs) == rawWs

\* A raw socket: ws.data as server.upgrade set it (lines 574, 579), data.shim,
\* and whether Bun has opened and closed the socket.
Socket(upgraded, isCanvas, shim, opened, closed) ==
  [upgraded |-> upgraded, isCanvas |-> isCanvas, shim |-> shim, opened |-> opened,
   closed |-> closed]

NoSocket == Socket(FALSE, FALSE, NoShim, FALSE, FALSE)

\* An emitted event: the emitter, the event name, the shim it concerns and
\* wss.clients at the moment of the emit.
WsEvent(target, event, shim, clientsThen) ==
  [target |-> target, event |-> event, shim |-> shim, clients |-> clientsThen]

\* What a callback leaves: wss.clients, the sockets' data, the events emitted
\* and the canvas host calls made.
WsOutcome(wsClients, socks, emitted, canvasCalls) ==
  [clients |-> wsClients, sockets |-> socks, emitted |-> emitted, canvasCalls |-> canvasCalls]

\* BunWebSocketServer.handleOpen (lines 99-108).
handleOpen(wsClients, socks, ws) ==
  LET shim == BunWs(ws)
      withShim == [socks EXCEPT ![ws].shim = shim]
      added == wsClients \cup {shim}
  IN WsOutcome(added, withShim, <<WsEvent("wss", "connection", shim, added)>>, <<>>)

\* BunWebSocketServer.handleMessage (lines 109-112).
handleMessage(wsClients, socks, ws) ==
  IF socks[ws].shim # NoShim
  THEN WsOutcome(wsClients, socks, <<WsEvent("shim", "message", socks[ws].shim, wsClients)>>,
                 <<>>)
  ELSE WsOutcome(wsClients, socks, <<>>, <<>>)

\* Mutant: the 'close' event is emitted before the shim leaves the set.
handleClose_EmitFirst(wsClients, socks, ws) ==
  IF socks[ws].shim # NoShim
  THEN WsOutcome(wsClients \ {socks[ws].shim}, socks,
                 <<WsEvent("shim", "close", socks[ws].shim, wsClients)>>, <<>>)
  ELSE WsOutcome(wsClients, socks, <<>>, <<>>)

\* BunWebSocketServer.handleClose (lines 113-119).
handleClose(wsClients, socks, ws) ==
  IF socks[ws].shim # NoShim
  THEN LET removed == wsClients \ {socks[ws].shim}
       IN WsOutcome(removed, socks, <<WsEvent("shim", "close", socks[ws].shim, removed)>>,
                    <<>>)
  ELSE WsOutcome(wsClients, socks, <<>>, <<>>)

\* Mutant: the else is missing, a canvas socket is handed to both.
websocketOpen_NoElse(wsClients, socks, ws) ==
  LET out == handleOpen(wsClients, socks, ws) IN
  IF socks[ws].isCanvas
  THEN WsOutcome(out.clients, out.sockets, out.emitted, <<"addClient">>)
  ELSE out

\* websocket.open (lines 762-766).
websocketOpen(wsClients, socks, ws) ==
  IF socks[ws].isCanvas
  THEN WsOutcome(wsClients, socks, <<>>, <<"addClient">>)
  ELSE handleOpen(wsClients, socks, ws)

\* websocket.message (lines 767-770).
websocketMessage(wsClients, socks, ws) ==
  IF ~socks[ws].isCanvas THEN handleMessage(wsClients, socks, ws)
  ELSE WsOutcome(wsClients, socks, <<>>, <<>>)

\* websocket.close (lines 771-775).
websocketClose(wsClients, socks, ws) ==
  IF socks[ws].isCanvas
  THEN WsOutcome(wsClients, socks, <<>>, <<"removeClient">>)
  ELSE handleClose(wsClients, socks, ws)

WsCall(op, ws, before, emitted, canvasCalls) ==
  [op |-> op, ws |-> ws, before |-> before, emitted |-> emitted,
   canvasCalls |-> canvasCalls]

NoWsCall == WsCall("none", 0, {}, <<>>, <<>>)

\* canvasHost.addClient(ws) / removeClient(ws) on the host's socket set.
canvasHostApply(hostClients, calls, ws) ==
  IF calls = <<"addClient">> THEN hostClients \cup {ws}
  ELSE IF calls = <<"removeClient">> THEN hostClients \ {ws}
  ELSE hostClients

(***************************************************************************)
(* fetch: websocket upgrade requests (lines 523-583)                       *)
(***************************************************************************)
\* url.pathname of the upgrade requests: the canvas websocket path and "/".
UpgradePaths == {CANVAS_WS_PATH, <<"">>}

\* The results authorizeCanvasRequest can hand to fetch.
UpgradeAuthResults ==
  {AuthOk, AuthResult(TRUE, "token", "", FALSE, 0), AuthUnauthorized,
   AuthResult(FALSE, "", "token_mismatch", FALSE, 0),
   AuthResult(FALSE, "", "rate_limited", TRUE, 0),
   AuthResult(FALSE, "", "rate_limited", TRUE, 1),
   AuthResult(FALSE, "", "rate_limited", TRUE, GatewayRetryAfterMs)}

\* What fetch does with an upgrade request: the Response's status, its
\* Retry-After header in seconds (0: no header), the isCanvas tag of each
\* server.upgrade call made, and the tag the socket was upgraded with.
UpgradeOutcome(status, retryAfter, attempts, upgradedAs) ==
  [status |-> status, retryAfter |-> retryAfter, attempts |-> attempts,
   upgradedAs |-> upgradedAs]

\* Mutant: a denial that is not rate limited goes on to the general upgrade.
fetchUpgrade_DeniedFallsThrough(canvasHost, pathname, ok, canvasUpgrades, plainUpgrades) ==
  LET gated == canvasHost /\ pathname = CANVAS_WS_PATH IN
  IF gated /\ ~ok.ok /\ ok.rateLimited
  THEN UpgradeOutcome(429, IF ok.retryAfterMs > 0
                           THEN (ok.retryAfterMs + 999) \div 1000 ELSE 0, <<>>, "none")
  ELSE IF gated /\ ok.ok /\ canvasUpgrades
  THEN UpgradeOutcome(200, 0, <<TRUE>>, "canvas")
  ELSE LET tried == IF gated /\ ok.ok THEN <<TRUE>> ELSE <<>> IN
       IF plainUpgrades
       THEN UpgradeOutcome(200, 0, Append(tried, FALSE), "plain")
       ELSE UpgradeOutcome(500, 0, Append(tried, FALSE), "none")

\* Lines 523-583. `ok` is what authorizeCanvasRequest returns when it is
\* called; canvasUpgrades and plainUpgrades are what server.upgrade returns
\* for the canvas data and for the general data.
fetchUpgrade(canvasHost, pathname, ok, canvasUpgrades, plainUpgrades) ==
  LET gated == canvasHost /\ pathname = CANVAS_WS_PATH IN
  IF gated /\ ~ok.ok
  THEN IF ok.rateLimited
       THEN UpgradeOutcome(429, IF ok.retryAfterMs > 0
                                THEN (ok.retryAfterMs + 999) \div 1000 ELSE 0,
                           <<>>, "none")
       ELSE UpgradeOutcome(401, 0, <<>>, "none")
  ELSE IF gated /\ canvasUpgrades
  THEN UpgradeOutcome(200, 0, <<TRUE>>, "canvas")
  ELSE LET tried == IF gated THEN <<TRUE>> ELSE <<>> IN
       IF plainUpgrades
       THEN UpgradeOutcome(200, 0, Append(tried, FALSE), "plain")
       ELSE UpgradeOutcome(500, 0, Append(tried, FALSE), "none")

\* An upgrade request in fetch: whether authorizeCanvasRequest was called,
\* its result, and what fetch did.
UpgradeCall(called, ws, pathname, authorized, ok, outcome) ==
  [called |-> called, ws |-> ws, pathname |-> pathname, authorized |-> authorized,
   ok |-> ok, outcome |-> outcome]

NoUpgradeCall ==
  UpgradeCall(FALSE, 0, <<>>, FALSE, AuthUnauthorized, UpgradeOutcome(0, 0, <<>>, "none"))

(***************************************************************************)
(* Chat run registry (chatRunState.registry, gateway/server-chat)          *)
(***************************************************************************)
ChatSessionIds == {"session-1", "session-2"}

ChatClientRunIds == {"run-1", "run-2"}

ChatSessionKeys == {"agent:main", "agent:other"}

\* The optional sessionKey argument left out.
NoSessionKey == ""

ChatRunEntry(sessionKey, clientRunId) ==
  [sessionKey |-> sessionKey, clientRunId |-> clientRunId]

\* `undefined` as the value removeChatRun returns.
NoChatRun == ChatRunEntry("", "")

ChatRunEntries ==
  { ChatRunEntry(k, r) : k \in ChatSessionKeys, r \in ChatClientRunIds }

\* The registry with no run: every session's queue is empty.
NoChatRuns == [sessionId \in ChatSessionIds |-> <<>>]

\* Whether a queued entry is the one remove(sessionId, clientRunId, sessionKey?)
\* names.
chatRunMatches(entry, clientRunId, sessionKey) ==
  /\ entry.clientRunId = clientRunId
  /\ sessionKey = NoSessionKey \/ entry.sessionKey = sessionKey

\* The index of the first matching entry of a queue (0: none).
chatRunIndex(queue, clientRunId, sessionKey) ==
  LET hits == { i \in DOMAIN queue : chatRunMatches(queue[i], clientRunId, sessionKey) }
  IN IF hits = {} THEN 0 ELSE CHOOSE i \in hits : \A j \in hits : i <= j

\* addChatRun: registers a run at the end of its session's queue.
addChatRun(registry, sessionId, entry) ==
  [registry EXCEPT ![sessionId] = Append(@, entry)]

\* Mutant: remove takes the session's first run, whatever its run id.
removeChatRun_AnyRun(registry, sessionId, clientRunId, sessionKey) ==
  LET queue == registry[sessionId] IN
  IF queue = <<>> THEN [registry |-> registry, entry |-> NoChatRun, threw |-> FALSE]
  ELSE [registry |-> [registry EXCEPT ![sessionId] = Tail(queue)],
        entry |-> Head(queue), threw |-> FALSE]

\* removeChatRun: removes and returns the entry if present, else undefined.
removeChatRun(registry, sessionId, clientRunId, sessionKey) ==
  LET queue == registry[sessionId]
      idx == chatRunIndex(queue, clientRunId, sessionKey)
  IN IF idx = 0 THEN [registry |-> registry, entry |-> NoChatRun, threw |-> FALSE]
     ELSE [registry |->
             [registry EXCEPT ![sessionId] =
                SubSeq(queue, 1, idx - 1) \o SubSeq(queue, idx + 1, Len(queue))],
           entry |-> queue[idx], threw |-> FALSE]

\* A registry call: its arguments, the registry it found, what it returned, and
\* whether it repeats the arguments of a remove that had just returned an entry.
ChatCall(op, sessionId, clientRunId, sessionKey, before, returned, threw, again) ==
  [op |-> op, sessionId |-> sessionId, clientRunId |-> clientRunId,
   sessionKey |-> sessionKey, before |-> before, returned |-> returned, threw |-> threw,
   again |-> again]

NoChatCall == ChatCall("none", "", "", "", NoChatRuns, NoChatRun, FALSE, FALSE)

(***************************************************************************)
(* Broadcaster (createGatewayBroadcaster, gateway/server-broadcast)        *)
(***************************************************************************)
\* The connection ids of the live sessions.
BroadcastConnIds == {"conn-1", "conn-2"}

BroadcastTopics == {"presence", "health"}

\* A topic's counter left out of opts.stateVersion, or never delivered.
NoVersion == 0

\* The values a state version takes.
StateVersions == {3, 5}

\* opts.stateVersion: { presence?: number; health?: number }.
StateVersionOpts == [BroadcastTopics -> StateVersions \cup {NoVersion}]

\* The DedupeEntry of every connection: nothing delivered yet.
NoDedupe == [connId \in BroadcastConnIds |-> [topic \in BroadcastTopics |-> NoVersion]]

\* Mutant: a version equal to the last one delivered is sent again.
isNewerStateVersion_OrEqual(entry, stateVersion) ==
  \A topic \in BroadcastTopics :
    stateVersion[topic] # NoVersion => stateVersion[topic] >= entry[topic]

\* Whether every counter the broadcast carries is newer than the recipient's
\* last-seen one.
isNewerStateVersion(entry, stateVersion) ==
  \A topic \in BroadcastTopics :
    stateVersion[topic] # NoVersion => stateVersion[topic] > entry[topic]

\* broadcast(event, payload, { stateVersion }): the recipients reached and the
\* entries left; `unreachable` are the recipients skipped as slow or failing.
broadcast(entries, stateVersion, unreachable) ==
  LET delivered == { connId \in BroadcastConnIds \ unreachable :
                       isNewerStateVersion(entries[connId], stateVersion) }
  IN [delivered |-> delivered,
      dedupe |-> [connId \in BroadcastConnIds |->
                    IF connId \in delivered
                    THEN [topic \in BroadcastTopics |->
                            IF stateVersion[topic] # NoVersion THEN stateVersion[topic]
                            ELSE entries[connId][topic]]
                    ELSE entries[connId]]]

BroadcastCall(called, stateVersion, unreachable, before, delivered) ==
  [called |-> called, stateVersion |-> stateVersion, unreachable |-> unreachable,
   before |-> before, delivered |-> delivered]

NoBroadcastCall ==
  BroadcastCall(FALSE, [topic \in BroadcastTopics |-> NoVersion], {}, NoDedupe, {})

(***************************************************************************)
(* Tool execution events of the embedded subscriber                        *)
(* (agents/pi-embedded-subscribe.handlers.tools, as its test drives it)    *)
(***************************************************************************)
ToolCallIds == {"tool-cron-1", "tool-cron-2", "tool-1"}

ToolNames == {"cron", "read"}

\* args.action of a tool call ("": the args have no action).
ToolActions == {"add", "list", ""}

\* A tool_execution_start event's toolName and args.action.
ToolStart(toolName, action) == [toolName |-> toolName, action |-> action]

\* No start event seen for a tool call id.
NoToolStart == ToolStart("", "")

\* ctx.state as createTestContext builds it (successfulCronAdds: 0), the start
\* events kept per tool call id, and per id how its call ended ("": not yet).
NewToolState ==
  [successfulCronAdds |-> 0,
   started |-> [id \in ToolCallIds |-> NoToolStart],
   ended |-> [id \in ToolCallIds |-> ""]]

isCronAddAction(start) == start.toolName = "cron" /\ start.action = "add"

\* handleToolExecutionStart: the call's name and args are kept for its end.
handleToolExecutionStart(state, toolCallId, toolName, action) ==
  [state EXCEPT !.started[toolCallId] = ToolStart(toolName, action)]

\* Mutant: a failed cron add is counted too.
handleToolExecutionEnd_CountsErrors(state, toolCallId, isError) ==
  [state EXCEPT
     !.successfulCronAdds = IF isCronAddAction(state.started[toolCallId]) THEN @ + 1 ELSE @,
     !.ended[toolCallId] = IF isError THEN "error" ELSE "ok"]

\* handleToolExecutionEnd: a cron add that ended without error is counted.
handleToolExecutionEnd(state, toolCallId, isError) ==
  [state EXCEPT
     !.successfulCronAdds =
        IF ~isError /\ isCronAddAction(state.started[toolCallId]) THEN @ + 1 ELSE @,
     !.ended[toolCallId] = IF isError THEN "error" ELSE "ok"]

(***************************************************************************)
(* Safe-bin argv validation (validateSafeBinArgv and its helpers)          *)
(* A string is the sequence of its characters; args[1] is the code's       *)
(* args[0], and an index past the end reads as undefined.                  *)
(***************************************************************************)
\* undefined, which `!value` does not tell from the empty string.
UndefinedArg == <<>>

ArgAt(args, index) == IF index \in DOMAIN args THEN args[index] ELSE UndefinedArg

AsciiLetters ==
  {"a", "b", "c", "d", "e", "f", "g", "h", "i", "j", "k", "l", "m", "n", "o", "p", "q", "r", "s", "t", "u", "v", "w", "x", "y", "z",
   "A", "B", "C", "D", "E", "F", "G", "H", "I", "J", "K", "L", "M", "N", "O", "P", "Q", "R", "S", "T", "U", "V", "W", "X", "Y", "Z"}

\* The characters String.prototype.trim removes.
TrimmedChars == {" ", "\t", "\n"}

\* value.trim().
trimToken(value) ==
  LET kept == {i \in DOMAIN value : value[i] \notin TrimmedChars} IN
  IF kept = {} THEN <<>>
  ELSE SubSeq(value, CHOOSE i \in kept : \A j \in kept : i <= j,
              CHOOSE i \in kept : \A j \in kept : i >= j)

tokenStartsWith(value, prefix) ==
  Len(value) >= Len(prefix) /\ SubSeq(value, 1, Len(prefix)) = prefix

\* isPathLikeToken (lines 96-111).
isPathLikeToken(value) ==
  LET trimmed == trimToken(value) IN
  IF trimmed = <<>> THEN FALSE
  ELSE IF trimmed = <<"-">> THEN FALSE
  ELSE IF tokenStartsWith(trimmed, <<".", "/">>) \/ tokenStartsWith(trimmed, <<".", ".", "/">>)
          \/ tokenStartsWith(trimmed, <<"~">>)
  THEN TRUE
  ELSE IF tokenStartsWith(trimmed, <<"/">>) THEN TRUE
  ELSE /\ Len(trimmed) >= 3
       /\ trimmed[1] \in AsciiLetters /\ trimmed[2] = ":" /\ trimmed[3] \in {"\\", "/"}

\* hasGlobToken (lines 113-117): /[*?[\]]/.
hasGlobToken(value) == \E i \in DOMAIN value : value[i] \in {"*", "?", "[", "]"}

\* maxPositional absent from the profile.
NoMaxPositional == -1

SafeBinProfile(minPositional, maxPositional, valueFlags, blockedFlags) ==
  [minPositional |-> minPositional, maxPositional |-> maxPositional,
   valueFlags |-> valueFlags, blockedFlags |-> blockedFlags]

NO_FLAGS == {}

SAFE_BIN_GENERIC_PROFILE == SafeBinProfile(0, NoMaxPositional, NO_FLAGS, NO_FLAGS)

\* SAFE_BIN_PROFILES.grep (lines 156-192).
SAFE_BIN_PROFILE_GREP ==
  SafeBinProfile(0, 1,
    {<<"-", "-", "r", "e", "g", "e", "x", "p">>, <<"-", "-", "f", "i", "l", "e">>,
     <<"-", "-", "m", "a", "x", "-", "c", "o", "u", "n", "t">>,
     <<"-", "-", "a", "f", "t", "e", "r", "-", "c", "o", "n", "t", "e", "x", "t">>,
     <<"-", "-", "b", "e", "f", "o", "r", "e", "-", "c", "o", "n", "t", "e", "x", "t">>,
     <<"-", "-", "c", "o", "n", "t", "e", "x", "t">>,
     <<"-", "-", "d", "e", "v", "i", "c", "e", "s">>,
     <<"-", "-", "d", "i", "r", "e", "c", "t", "o", "r", "i", "e", "s">>,
     <<"-", "-", "b", "i", "n", "a", "r", "y", "-", "f", "i", "l", "e", "s">>,
     <<"-", "-", "e", "x", "c", "l", "u", "d", "e">>,
     <<"-", "-", "e", "x", "c", "l", "u", "d", "e", "-", "f", "r", "o", "m">>,
     <<"-", "-", "i", "n", "c", "l", "u", "d", "e">>,
     <<"-", "-", "l", "a", "b", "e", "l">>, <<"-", "e">>, <<"-", "f">>,
     <<"-", "m">>, <<"-", "A">>, <<"-", "B">>, <<"-", "C">>, <<"-", "D">>,
     <<"-", "d">>},
    {<<"-", "-", "f", "i", "l", "e">>,
     <<"-", "-", "e", "x", "c", "l", "u", "d", "e", "-", "f", "r", "o", "m">>,
     <<"-", "-", "d", "e", "r", "e", "f", "e", "r", "e", "n", "c", "e", "-", "r", "e", "c", "u", "r", "s", "i", "v", "e">>,
     <<"-", "-", "d", "i", "r", "e", "c", "t", "o", "r", "i", "e", "s">>,
     <<"-", "-", "r", "e", "c", "u", "r", "s", "i", "v", "e">>, <<"-", "f">>,
     <<"-", "d">>, <<"-", "r">>, <<"-", "R">>})

\* SAFE_BIN_PROFILES.tr (lines 256-259).
SAFE_BIN_PROFILE_TR == SafeBinProfile(1, 2, NO_FLAGS, NO_FLAGS)

\* isSafeLiteralToken (lines 267-272).
isSafeLiteralToken(value) ==
  IF value = <<>> \/ value = <<"-">> THEN TRUE
  ELSE ~hasGlobToken(value) /\ ~isPathLikeToken(value)

\* isInvalidValueToken (lines 274-276).
isInvalidValueToken(value) == value = UndefinedArg \/ ~isSafeLiteralToken(value)

\* token.indexOf("="), counted from 0; -1 when there is none.
indexOfEquals(token) ==
  LET at == {i \in DOMAIN token : token[i] = "="} IN
  IF at = {} THEN -1 ELSE (CHOOSE i \in at : \A j \in at : i <= j) - 1

\* Mutant: the blocked-flag test looks at the whole token, `=value` included.
consumeLongFlagToken_WholeToken(args, index, valueFlags, blockedFlags) ==
  LET token == ArgAt(args, index)
      eqIndex == indexOfEquals(token)
      flag == IF eqIndex > 0 THEN SubSeq(token, 1, eqIndex) ELSE token
  IN IF token = UndefinedArg THEN -1
     ELSE IF token \in blockedFlags THEN -1
     ELSE IF eqIndex > 0
     THEN IF isSafeLiteralToken(SubSeq(token, eqIndex + 2, Len(token))) THEN index + 1 ELSE -1
     ELSE IF flag \notin valueFlags THEN index + 1
     ELSE IF isInvalidValueToken(ArgAt(args, index + 1)) THEN -1 ELSE index + 2

\* consumeLongFlagToken (lines 278-300): the index of the next token, or -1.
consumeLongFlagToken(args, index, valueFlags, blockedFlags) ==
  LET token == ArgAt(args, index)
      eqIndex == indexOfEquals(token)
      flag == IF eqIndex > 0 THEN SubSeq(token, 1, eqIndex) ELSE token
  IN IF token = UndefinedArg THEN -1
     ELSE IF flag \in blockedFlags THEN -1
     ELSE IF eqIndex > 0
     THEN IF isSafeLiteralToken(SubSeq(token, eqIndex + 2, Len(token))) THEN index + 1 ELSE -1
     ELSE IF flag \notin valueFlags THEN index + 1
     ELSE IF isInvalidValueToken(ArgAt(args, index + 1)) THEN -1 ELSE index + 2

\* The loop of consumeShortFlagClusterToken from the character at j (from 1).
RECURSIVE shortFlagClusterFrom(_, _, _, _, _)
shortFlagClusterFrom(args, index, j, valueFlags, blockedFlags) ==
  LET token == args[index]
      flag == <<"-", token[j]>>
      inlineValue == SubSeq(token, j + 1, Len(token))
  IN IF j > Len(token) THEN (IF hasGlobToken(token) THEN -1 ELSE index + 1)
     ELSE IF flag \in blockedFlags THEN -1
     ELSE IF flag \notin valueFlags
     THEN shortFlagClusterFrom(args, index, j + 1, valueFlags, blockedFlags)
     ELSE IF inlineValue # <<>>
     THEN (IF isSafeLiteralToken(inlineValue) THEN index + 1 ELSE -1)
     ELSE IF isInvalidValueToken(ArgAt(args, index + 1)) THEN -1 ELSE index + 2

\* consumeShortFlagClusterToken (lines 302-327).
consumeShortFlagClusterToken(args, index, valueFlags, blockedFlags) ==
  IF ArgAt(args, index) = UndefinedArg THEN -1
  ELSE shortFlagClusterFrom(args, index, 2, valueFlags, blockedFlags)

\* validatePositionalCount (lines 337-343).
validatePositionalCount(positional, profile) ==
  IF Len(positional) < profile.minPositional THEN FALSE
  ELSE profile.maxPositional = NoMaxPositional \/ Len(positional) <= profile.maxPositional

\* Lines 355-366: the tokens after `--`; the result holds whether all of them
\* were accepted and the positionals pushed.
RECURSIVE consumeRest(_, _, _)
consumeRest(args, j, positional) ==
  IF j > Len(args) THEN [ok |-> TRUE, positional |-> positional]
  ELSE IF args[j] = <<>> \/ args[j] = <<"-">> THEN consumeRest(args, j + 1, positional)
  ELSE IF ~isSafeLiteralToken(args[j]) THEN [ok |-> FALSE, positional |-> positional]
  ELSE consumeRest(args, j + 1, Append(positional, args[j]))

\* The while loop of validateSafeBinArgv from index i (lines 350-394).
RECURSIVE validateSafeBinArgvFrom(_, _, _, _)
validateSafeBinArgvFrom(args, i, positional, profile) ==
  LET token == ArgAt(args, i)
      rest == consumeRest(args, i + 1, positional)
      nextLong == consumeLongFlagToken(args, i, profile.valueFlags, profile.blockedFlags)
      nextShort == consumeShortFlagClusterToken(args, i, profile.valueFlags,
                                                profile.blockedFlags)
  IN IF i > Len(args) THEN validatePositionalCount(positional, profile)
     ELSE IF token = <<>> THEN validateSafeBinArgvFrom(args, i + 1, positional, profile)
     ELSE IF token = <<"-", "-">>
     THEN (IF rest.ok THEN validatePositionalCount(rest.positional, profile) ELSE FALSE)
     ELSE IF token = <<"-">> THEN validateSafeBinArgvFrom(args, i + 1, positional, profile)
     ELSE IF ~tokenStartsWith(token, <<"-">>)
     THEN (IF ~isSafeLiteralToken(token) THEN FALSE
           ELSE validateSafeBinArgvFrom(args, i + 1, Append(positional, token), profile))
     ELSE IF tokenStartsWith(token, <<"-", "-">>)
     THEN (IF nextLong < 0 THEN FALSE
           ELSE validateSafeBinArgvFrom(args, nextLong, positional, profile))
     ELSE IF nextShort < 0 THEN FALSE
     ELSE validateSafeBinArgvFrom(args, nextShort, positional, profile)

\* validateSafeBinArgv (lines 345-397).
validateSafeBinArgv(args, profile) == validateSafeBinArgvFrom(args, 1, <<>>, profile)

\* The tokens of the argument vectors examined.
ArgvTokens ==
  {<<>>, <<"-">>, <<"-", "-">>, <<"x">>, <<"/", "e">>, <<"a", "*">>, <<" ", "~">>,
   <<"C", ":", "/">>, <<"-", "-", "f", "i", "l", "e">>,
   <<"-", "-", "f", "i", "l", "e", "=", "x">>,
   <<"-", "-", "r", "e", "g", "e", "x", "p">>,
   <<"-", "-", "r", "e", "g", "e", "x", "p", "=", "/", "e">>,
   <<"-", "-", "c", "o", "u", "n", "t">>, <<"-", "e">>, <<"-", "i", "r">>,
   <<"-", "e", "/", "e">>, <<"-", "e", "r">>}

\* The longest argument vector examined.
MaxArgs == 3

ArgvInputs == UNION {[1..n -> ArgvTokens] : n \in 0..MaxArgs}

ArgvProfiles == {SAFE_BIN_GENERIC_PROFILE, SAFE_BIN_PROFILE_GREP, SAFE_BIN_PROFILE_TR}

\* A call of validateSafeBinArgv and what it returned.
ArgvCall(called, args, profile, result) ==
  [called |-> called, args |-> args, profile |-> profile, result |-> result]

NoArgvCall == ArgvCall(FALSE, <<>>, SAFE_BIN_GENERIC_PROFILE, FALSE)

(***************************************************************************)
(* Idle values of the state outside the HTTP handlers                      *)
(***************************************************************************)
WsIdle ==
  /\ sockets = [ws \in SocketIds |-> NoSocket]
  /\ wssClients = {}
  /\ wsLast = NoWsCall
  /\ upgradeLast = NoUpgradeCall
  /\ canvasClients = {}

ChatIdle == chatRuns = NoChatRuns /\ chatLast = NoChatCall

BroadcastIdle == dedupe = NoDedupe /\ broadcastLast = NoBroadcastCall

ToolIdle == toolState = NewToolState

ShimIdle == shimCall = IdleShimCall

ArgvIdle == argvCall = NoArgvCall

AuxIdle ==
  /\ scopeCall = NoScopeCall
  /\ WsIdle /\ ChatIdle /\ BroadcastIdle /\ ToolIdle /\ ShimIdle /\ ArgvIdle

(***************************************************************************)
(* Canvas authorization: state machine                                     *)
(***************************************************************************)
\* The clients that may connect in the model.
WsClientPool ==
  { [clientIp |-> PrivateAddr, role |-> "node", mode |-> "node"],
    [clientIp |-> PrivateAddr, role |-> "operator", mode |-> "cli"],
    [clientIp |-> ProxyAddr, role |-> "operator", mode |-> "NODE"],
    [clientIp |-> PublicAddr, role |-> "node", mode |-> "node"],
    [clientIp |-> NoAddr, role |-> "node", mode |-> "node"] }

NoCanvasCall ==
  [called |-> FALSE,
   req |-> [remoteAddress |-> NoAddr, forwardedFor |-> NoAddr, realIp |-> NoAddr,
            token |-> NoToken],
   result |-> AuthUnauthorized, consulted |-> FALSE, gateway |-> AuthUnauthorized,
   blockedBefore |-> FALSE]

CanvasInit ==
  /\ clients = {}
  /\ gatewayBlocked = {}
  /\ canvasLast = NoCanvasCall
  /\ fallbackLapsed = {}
  /\ routerOpts = AllRouterOpts
  /\ routerCalls = [slot \in RouterSlots |-> IdleRouterCall]
  /\ AuxIdle

\* A gateway websocket client finished its handshake and joined the set.
WsClientAdd(c) ==
  /\ ~canvasLast.called
  /\ c \notin clients
  /\ clients' = clients \cup {c}
  /\ fallbackLapsed' = IF isNodeWsClient(c) THEN fallbackLapsed \ {c.clientIp}
                                            ELSE fallbackLapsed
  /\ UNCHANGED <<gatewayBlocked, canvasLast, hookVars, routerVars, shimVars, argvVars, auxVars>>

\* A gateway websocket client disconnected.
WsClientRemove(c) ==
  /\ ~canvasLast.called
  /\ c \in clients
  /\ clients' = clients \ {c}
  /\ fallbackLapsed' =
       IF /\ isNodeWsClient(c) /\ c.clientIp # NoAddr
          /\ ~\E d \in clients \ {c} : isNodeWsClient(d) /\ d.clientIp = c.clientIp
       THEN fallbackLapsed \cup {c.clientIp}
       ELSE fallbackLapsed
  /\ UNCHANGED <<gatewayBlocked, canvasLast, hookVars, routerVars, shimVars, argvVars, auxVars>>

\* The limiter's window for a blocked key ran out.
GatewayLimiterExpire(key) ==
  /\ ~canvasLast.called
  /\ key \in gatewayBlocked
  /\ gatewayBlocked' = gatewayBlocked \ {key}
  /\ UNCHANGED <<clients, canvasLast, fallbackLapsed, hookVars, routerVars, shimVars, argvVars, auxVars>>

\* One call of authorizeCanvasRequest; canvasLast holds the call until the
\* caller has used the result.
CanvasRequest(req, tips) ==
  LET out == authorizeCanvasRequest(req, clients, gatewayBlocked, tips) IN
  /\ ~canvasLast.called
  /\ gatewayBlocked' = out.blocked
  /\ canvasLast' = [called |-> TRUE, req |-> req, result |-> out.result,
                    consulted |-> out.consulted, gateway |-> out.gateway,
                    blockedBefore |-> gatewayClientKey(req) \in gatewayBlocked]
  /\ UNCHANGED <<clients, fallbackLapsed, hookVars, routerVars, shimVars, argvVars, auxVars>>

\* The caller used the result (passed the request on, or sent 401 / 429).
CanvasReturn ==
  /\ canvasLast.called
  /\ canvasLast' = NoCanvasCall
  /\ UNCHANGED <<clients, gatewayBlocked, fallbackLapsed, hookVars, routerVars, shimVars, argvVars, auxVars>>

CanvasNext ==
  \/ \E c \in WsClientPool : WsClientAdd(c)
  \/ \E c \in WsClientPool : WsClientRemove(c)
  \/ \E key \in RemoteAddrs : GatewayLimiterExpire(key)
  \/ \E req \in CanvasRequests, tips \in BOOLEAN : CanvasRequest(req, tips)
  \/ CanvasReturn

(***************************************************************************)
(* Hook auth-failure limiter (createHooksRequestHandler's closure state)   *)
(***************************************************************************)
HOOK_AUTH_FAILURE_LIMIT == 20
HOOK_AUTH_FAILURE_WINDOW_MS == 60000
HOOK_AUTH_FAILURE_TRACK_MAX == 2048

\* A Map is the sequence of its entries in insertion order; an entry is a
\* client key with its HookAuthFailure value.
MapEntry(key, count, windowStartedAtMs) ==
  [key |-> key, count |-> count, windowStartedAtMs |-> windowStartedAtMs]

MapHas(m, key) == \E i \in DOMAIN m : m[i].key = key

MapGet(m, key) == m[CHOOSE i \in DOMAIN m : m[i].key = key]

MapDelete(m, key) == SelectSeq(m, LAMBDA e : e.key # key)

\* Map.prototype.set: an existing key keeps its place, a new key goes last.
MapSet(m, entry) ==
  IF MapHas(m, entry.key)
  THEN [i \in DOMAIN m |-> IF m[i].key = entry.key THEN entry ELSE m[i]]
  ELSE Append(m, entry)

MapKeys(m) == {m[i].key : i \in DOMAIN m}

isHookWindowExpired(entry, now) ==
  now - entry.windowStartedAtMs >= HOOK_AUTH_FAILURE_WINDOW_MS

\* Mutant: room is made only when the map is over its capacity.
pruneHookAuthFailures_OverCapacity(m, clientKey, now) ==
  IF ~MapHas(m, clientKey) /\ Len(m) > HOOK_AUTH_FAILURE_TRACK_MAX
  THEN LET pruned == SelectSeq(m, LAMBDA e : ~isHookWindowExpired(e, now)) IN
       IF Len(pruned) >= HOOK_AUTH_FAILURE_TRACK_MAX
       THEN SubSeq(pruned, (Len(pruned) \div 2) + 1, Len(pruned))
       ELSE pruned
  ELSE m

\* Mutant: the oldest half is dropped without pruning the expired entries first.
pruneHookAuthFailures_HalfFirst(m, clientKey, now) ==
  IF ~MapHas(m, clientKey) /\ Len(m) >= HOOK_AUTH_FAILURE_TRACK_MAX
  THEN SubSeq(m, (Len(m) \div 2) + 1, Len(m))
  ELSE m

\* Mutant: room is made on a full map for a tracked key too.
pruneHookAuthFailures_TrackedToo(m, clientKey, now) ==
  IF Len(m) >= HOOK_AUTH_FAILURE_TRACK_MAX
  THEN LET pruned == SelectSeq(m, LAMBDA e : ~isHookWindowExpired(e, now)) IN
       IF Len(pruned) >= HOOK_AUTH_FAILURE_TRACK_MAX
       THEN SubSeq(pruned, (Len(pruned) \div 2) + 1, Len(pruned))
       ELSE pruned
  ELSE m

\* Lines 254-272: room is made for an untracked key when the map is full:
\* expired entries are pruned, then the oldest half is dropped.
pruneHookAuthFailures(m, clientKey, now) ==
  IF ~MapHas(m, clientKey) /\ Len(m) >= HOOK_AUTH_FAILURE_TRACK_MAX
  THEN LET pruned == SelectSeq(m, LAMBDA e : ~isHookWindowExpired(e, now)) IN
       IF Len(pruned) >= HOOK_AUTH_FAILURE_TRACK_MAX
       THEN SubSeq(pruned, (Len(pruned) \div 2) + 1, Len(pruned))
       ELSE pruned
  ELSE m

\* Mutant: a window ends only after more than the window length.
nextHookAuthFailure_StrictExpiry(m, clientKey, now) ==
  IF ~MapHas(m, clientKey)
     \/ now - MapGet(m, clientKey).windowStartedAtMs > HOOK_AUTH_FAILURE_WINDOW_MS
  THEN MapEntry(clientKey, 1, now)
  ELSE MapEntry(clientKey, MapGet(m, clientKey).count + 1,
                MapGet(m, clientKey).windowStartedAtMs)

\* Mutant: every failure of a running window restarts the window.
nextHookAuthFailure_SlidingWindow(m, clientKey, now) ==
  IF ~MapHas(m, clientKey) \/ isHookWindowExpired(MapGet(m, clientKey), now)
  THEN MapEntry(clientKey, 1, now)
  ELSE MapEntry(clientKey, MapGet(m, clientKey).count + 1, now)

\* Lines 273-277: the entry the failure leaves for the key.
nextHookAuthFailure(m, clientKey, now) ==
  IF ~MapHas(m, clientKey) \/ isHookWindowExpired(MapGet(m, clientKey), now)
  THEN MapEntry(clientKey, 1, now)
  ELSE MapEntry(clientKey, MapGet(m, clientKey).count + 1,
                MapGet(m, clientKey).windowStartedAtMs)

\* Mutant: the limit is compared with < instead of <=.
hookThrottle_OffByOne(next, now) ==
  IF next.count < HOOK_AUTH_FAILURE_LIMIT
  THEN [throttled |-> FALSE, retryAfterSeconds |-> 0]
  ELSE LET left == next.windowStartedAtMs + HOOK_AUTH_FAILURE_WINDOW_MS - now
           retryAfterMs == IF left > 1 THEN left ELSE 1
       IN [throttled |-> TRUE, retryAfterSeconds |-> (retryAfterMs + 999) \div 1000]

\* Mutant: the time left is rounded down to whole seconds.
hookThrottle_RoundsDown(next, now) ==
  IF next.count <= HOOK_AUTH_FAILURE_LIMIT
  THEN [throttled |-> FALSE, retryAfterSeconds |-> 0]
  ELSE LET left == next.windowStartedAtMs + HOOK_AUTH_FAILURE_WINDOW_MS - now
           retryAfterMs == IF left > 1 THEN left ELSE 1
       IN [throttled |-> TRUE, retryAfterSeconds |-> retryAfterMs \div 1000]

\* Lines 284-291: the throttle verdict for the stored entry (no
\* retryAfterSeconds is 0).
hookThrottle(next, now) ==
  IF next.count <= HOOK_AUTH_FAILURE_LIMIT
  THEN [throttled |-> FALSE, retryAfterSeconds |-> 0]
  ELSE LET left == next.windowStartedAtMs + HOOK_AUTH_FAILURE_WINDOW_MS - now
           retryAfterMs == IF left > 1 THEN left ELSE 1
       IN [throttled |-> TRUE, retryAfterSeconds |-> (retryAfterMs + 999) \div 1000]

\* Mutant: a tracked key is updated in place, keeping its place in the order.
recordHookAuthFailure_NoRefresh(m, clientKey, now) ==
  LET roomy == pruneHookAuthFailures(m, clientKey, now)
      next == nextHookAuthFailure(roomy, clientKey, now)
      stored == IF MapHas(roomy, clientKey)
                THEN [i \in DOMAIN roomy |->
                        IF roomy[i].key = clientKey THEN next ELSE roomy[i]]
                ELSE MapSet(roomy, next)
  IN [map |-> stored, throttle |-> hookThrottle(next, now)]

\* Mutant: the new entry is computed from a map read before the other
\* requests' updates (here: the empty map), then written over the current one.
recordHookAuthFailure_StaleRead(m, clientKey, now) ==
  LET roomy == pruneHookAuthFailures(m, clientKey, now)
      next == nextHookAuthFailure(<<>>, clientKey, now)
      stored == MapSet(IF MapHas(roomy, clientKey) THEN MapDelete(roomy, clientKey)
                       ELSE roomy, next)
  IN [map |-> stored, throttle |-> hookThrottle(next, now)]

\* recordHookAuthFailure (lines 250-292): the map it leaves and what it returns.
recordHookAuthFailure(m, clientKey, now) ==
  LET roomy == pruneHookAuthFailures(m, clientKey, now)
      next == nextHookAuthFailure(roomy, clientKey, now)
      stored == MapSet(IF MapHas(roomy, clientKey) THEN MapDelete(roomy, clientKey)
                       ELSE roomy, next)
  IN [map |-> stored, throttle |-> hookThrottle(next, now)]

\* clearHookAuthFailure (lines 294-296).
clearHookAuthFailure(m, clientKey) == MapDelete(m, clientKey)

(***************************************************************************)
(* Hooks request handler: requests, configuration, collaborators           *)
(***************************************************************************)
HookSecret == "hook-secret"          \* hooksConfig.token
WrongHookSecret == "hook-wrong"

HOOKS_BASE_PATH == <<"hooks">>       \* hooksConfig.basePath, as path segments

\* getHooksConfig(): null, or the resolved configuration.
NoHooksConfig == [enabled |-> FALSE, hasMappings |-> FALSE]
HooksConfigs == [enabled : BOOLEAN, hasMappings : BOOLEAN] \ {[enabled |-> FALSE, hasMappings |-> TRUE]}

\* url.pathname as its segments: /status, /hooks, /hooks/wake, /hooks/agent, /hooks/github.
HookPathnames == {<<"status">>, <<"hooks">>, <<"hooks", "wake">>, <<"hooks", "agent">>,
                  <<"hooks", "github">>}

\* req.socket?.remoteAddress of the hook caller (addresses are numbered; -1 is an
\* absent or blank address). The handler is exercised by one caller; the
\* limiter is exercised with many keys by LimiterNext.
HookRemoteAddrs == {1}

\* The client key "unknown".
UnknownClientKey == 0

HookRequests ==
  [remoteAddress : HookRemoteAddrs, config : HooksConfigs, pathname : HookPathnames,
   queryToken : BOOLEAN, token : {NoToken, HookSecret, WrongHookSecret},
   method : {"POST", "GET"}]

\* req.socket?.remoteAddress?.trim() || "unknown".
resolveHookClientKey(req) ==
  IF req.remoteAddress = -1 THEN UnknownClientKey ELSE req.remoteAddress

extractHookToken(req) == req.token

\* Constant-time equality of two strings; an absent value equals nothing.
safeEqualSecret(provided, expected) == provided # NoToken /\ provided = expected

\* url.pathname !== basePath && !url.pathname.startsWith(`${basePath}/`), negated.
isUnderHooksBasePath(pathname, basePath) ==
  /\ Len(pathname) >= Len(basePath)
  /\ SubSeq(pathname, 1, Len(basePath)) = basePath

\* url.pathname.slice(basePath.length).replace(/^\/+/, ""), as segments.
hookSubPath(pathname, basePath) ==
  SelectSeq(SubSeq(pathname, Len(basePath) + 1, Len(pathname)), LAMBDA seg : seg # "")

\* What readJsonBody resolves to.
HookPayloads ==
  { [text |-> "ping", mode |-> "now", message |-> "", agentId |-> "", sessionKey |-> ""],
    [text |-> "ping", mode |-> "next-heartbeat", message |-> "", agentId |-> "", sessionKey |-> ""],
    [text |-> "", mode |-> "", message |-> "", agentId |-> "", sessionKey |-> ""],
    [text |-> "", mode |-> "", message |-> "hi", agentId |-> "", sessionKey |-> "hook:ci"],
    [text |-> "", mode |-> "", message |-> "hi", agentId |-> "rogue", sessionKey |-> ""],
    [text |-> "", mode |-> "", message |-> "hi", agentId |-> "main", sessionKey |-> "agent:other"] }

NoPayload == [text |-> "", mode |-> "", message |-> "", agentId |-> "", sessionKey |-> ""]

HookBodyResults ==
  {[ok |-> FALSE, error |-> e, value |-> NoPayload] :
      e \in {"payload too large", "request body timeout", "invalid json"}}
  \cup {[ok |-> TRUE, error |-> "", value |-> v] : v \in HookPayloads}

normalizeWakePayload(payload) ==
  IF payload.text = ""
  THEN [ok |-> FALSE, error |-> "text required", mode |-> ""]
  ELSE [ok |-> TRUE, error |-> "",
        mode |-> IF payload.mode = "next-heartbeat" THEN "next-heartbeat" ELSE "now"]

normalizeAgentPayload(payload) ==
  IF payload.message = ""
  THEN [ok |-> FALSE, error |-> "message required"]
  ELSE [ok |-> TRUE, error |-> ""]

\* The agent policy of the configuration allows every agent but "rogue".
isHookAgentAllowed(agentId) == agentId # "rogue"

getHookAgentPolicyError == "agentId is not allowed by hooks.allowedAgentIds"

getHookChannelError == "channel must be a known channel"

\* The explicit value when the policy admits it (prefix "hook:"), else the default.
resolveHookSessionKey(sessionKey) ==
  IF sessionKey = "" THEN [ok |-> TRUE, value |-> "hook:default", error |-> ""]
  ELSE IF sessionKey = "hook:ci" THEN [ok |-> TRUE, value |-> sessionKey, error |-> ""]
  ELSE [ok |-> FALSE, value |-> "", error |-> "sessionKey is not allowed"]

\* What applyHookMappings resolves to (or throws): no rule matched (null), a
\* failed rule ({ok: false, error}), a null action, a wake or an agent action;
\* `error` is the failure's text, or the text of the exception thrown.
HookMapping(kind, error, mode, channelOk, agentId, sessionKey) ==
  [kind |-> kind, error |-> error, mode |-> mode, channelOk |-> channelOk,
   agentId |-> agentId, sessionKey |-> sessionKey]

HookMappingResults ==
  { HookMapping("throws", "TypeError: x is undefined", "", FALSE, "", ""),
    HookMapping("throws", "Error: transform failed /etc/hooks/t.js", "", FALSE, "", ""),
    HookMapping("nomatch", "", "", FALSE, "", ""),
    HookMapping("error", "hook mapping requires message", "", FALSE, "", ""),
    HookMapping("skip", "", "", FALSE, "", ""),
    HookMapping("wake", "", "next-heartbeat", FALSE, "", ""),
    HookMapping("agent", "", "now", TRUE, "main", ""),
    HookMapping("agent", "", "now", FALSE, "main", ""),
    HookMapping("agent", "", "now", TRUE, "rogue", ""),
    HookMapping("agent", "", "now", TRUE, "main", "agent:other") }

\* Before readJsonBody and applyHookMappings have settled.
NoBody == [ok |-> FALSE, error |-> "", value |-> NoPayload]

NoMapping == HookMapping("none", "", "", FALSE, "", "")

\* The run ids dispatchAgentHook may return.
HookRunIds == {"run-a", "run-b"}

(***************************************************************************)
(* Hooks request handler: responses                                        *)
(***************************************************************************)
\* The response written to res: status, Retry-After and Allow headers ("" when
\* not set) and the body.
HookResponse(status, retryAfter, allow, body) ==
  [status |-> status, retryAfter |-> retryAfter, allow |-> allow, body |-> body]

HookBody(kind, ok, text, mode, runId) ==
  [kind |-> kind, ok |-> ok, text |-> text, mode |-> mode, runId |-> runId]

TextBody(text) == HookBody("text", FALSE, text, "", "")

JsonError(error) == HookBody("json", FALSE, error, "", "")

NoHookResponse == HookResponse(0, 0, "", HookBody("none", FALSE, "", "", ""))

\* sendJson (lines 141-145).
sendJson(status, body) == HookResponse(status, 0, "", body)

sendText(status, text) == HookResponse(status, 0, "", TextBody(text))

\* A call of the handler: where it stands (idle, body, mapping, done), its
\* request, the map before its auth step, the response, the value it returned
\* and the dispatcher invocations it made; `body` and `mapped` are what
\* readJsonBody and applyHookMappings gave the call, filled in when they settle.
HookCall(pc, req, before, res, claimed, dispatched) ==
  [pc |-> pc, req |-> req, before |-> before, res |-> res, claimed |-> claimed,
   dispatched |-> dispatched, body |-> NoBody, mapped |-> NoMapping]

NoHookRequest ==
  [remoteAddress |-> -1, config |-> NoHooksConfig, pathname |-> <<"status">>,
   queryToken |-> FALSE, token |-> NoToken, method |-> "GET"]

IdleHookCall == HookCall("idle", NoHookRequest, <<>>, NoHookResponse, FALSE, <<>>)

HookDone(call, res, dispatched) ==
  HookCall("done", call.req, call.before, res, TRUE, dispatched)

(***************************************************************************)
(* Hooks request handler: the three synchronous stretches of the handler   *)
(***************************************************************************)
\* Mutant: the method is checked before the token is compared.
hooksHandlerStart_MethodFirst(req, m, now) ==
  LET call == HookCall("body", req, m, NoHookResponse, FALSE, <<>>)
      clientKey == resolveHookClientKey(req)
      failure == recordHookAuthFailure(m, clientKey, now)
      retryAfter == IF failure.throttle.retryAfterSeconds = 0 THEN 1
                    ELSE failure.throttle.retryAfterSeconds
      subPath == hookSubPath(req.pathname, HOOKS_BASE_PATH)
  IN IF ~req.config.enabled
     THEN [call |-> HookCall("done", req, m, NoHookResponse, FALSE, <<>>), map |-> m]
     ELSE IF ~isUnderHooksBasePath(req.pathname, HOOKS_BASE_PATH)
     THEN [call |-> HookCall("done", req, m, NoHookResponse, FALSE, <<>>), map |-> m]
     ELSE IF req.queryToken
     THEN [call |-> HookDone(call, sendText(400, "Hook token must be provided via header"), <<>>),
           map |-> m]
     ELSE IF req.method # "POST"
     THEN [call |-> HookDone(call, HookResponse(405, 0, "POST",
                                                TextBody("Method Not Allowed")), <<>>),
           map |-> m]
     ELSE IF ~safeEqualSecret(extractHookToken(req), HookSecret)
     THEN IF failure.throttle.throttled
          THEN [call |-> HookDone(call, HookResponse(429, retryAfter, "",
                                                     TextBody("Too Many Requests")), <<>>),
                map |-> failure.map]
          ELSE [call |-> HookDone(call, sendText(401, "Unauthorized"), <<>>),
                map |-> failure.map]
     ELSE IF subPath = <<>>
     THEN [call |-> HookDone(call, sendText(404, "Not Found"), <<>>),
           map |-> clearHookAuthFailure(m, clientKey)]
     ELSE [call |-> call, map |-> clearHookAuthFailure(m, clientKey)]

\* Mutant: the `token` query parameter is looked at after the token comparison.
hooksHandlerStart_QueryAfterAuth(req, m, now) ==
  LET call == HookCall("body", req, m, NoHookResponse, FALSE, <<>>)
      clientKey == resolveHookClientKey(req)
      failure == recordHookAuthFailure(m, clientKey, now)
      retryAfter == IF failure.throttle.retryAfterSeconds = 0 THEN 1
                    ELSE failure.throttle.retryAfterSeconds
      subPath == hookSubPath(req.pathname, HOOKS_BASE_PATH)
  IN IF ~req.config.enabled
     THEN [call |-> HookCall("done", req, m, NoHookResponse, FALSE, <<>>), map |-> m]
     ELSE IF ~isUnderHooksBasePath(req.pathname, HOOKS_BASE_PATH)
     THEN [call |-> HookCall("done", req, m, NoHookResponse, FALSE, <<>>), map |-> m]
     ELSE IF ~safeEqualSecret(extractHookToken(req), HookSecret)
     THEN IF failure.throttle.throttled
          THEN [call |-> HookDone(call, HookResponse(429, retryAfter, "",
                                                     TextBody("Too Many Requests")), <<>>),
                map |-> failure.map]
          ELSE [call |-> HookDone(call, sendText(401, "Unauthorized"), <<>>),
                map |-> failure.map]
     ELSE IF req.queryToken
     THEN [call |-> HookDone(call, sendText(400, "Hook token must be provided via header"), <<>>),
           map |-> clearHookAuthFailure(m, clientKey)]
     ELSE IF req.method # "POST"
     THEN [call |-> HookDone(call, HookResponse(405, 0, "POST",
                                                TextBody("Method Not Allowed")), <<>>),
           map |-> clearHookAuthFailure(m, clientKey)]
     ELSE IF subPath = <<>>
     THEN [call |-> HookDone(call, sendText(404, "Not Found"), <<>>),
           map |-> clearHookAuthFailure(m, clientKey)]
     ELSE [call |-> call, map |-> clearHookAuthFailure(m, clientKey)]

\* Mutant: the failure entry is cleared only once method and sub-path passed.
hooksHandlerStart_ClearLate(req, m, now) ==
  LET call == HookCall("body", req, m, NoHookResponse, FALSE, <<>>)
      clientKey == resolveHookClientKey(req)
      failure == recordHookAuthFailure(m, clientKey, now)
      retryAfter == IF failure.throttle.retryAfterSeconds = 0 THEN 1
                    ELSE failure.throttle.retryAfterSeconds
      subPath == hookSubPath(req.pathname, HOOKS_BASE_PATH)
  IN IF ~req.config.enabled
     THEN [call |-> HookCall("done", req, m, NoHookResponse, FALSE, <<>>), map |-> m]
     ELSE IF ~isUnderHooksBasePath(req.pathname, HOOKS_BASE_PATH)
     THEN [call |-> HookCall("done", req, m, NoHookResponse, FALSE, <<>>), map |-> m]
     ELSE IF req.queryToken
     THEN [call |-> HookDone(call, sendText(400, "Hook token must be provided via header"), <<>>),
           map |-> m]
     ELSE IF ~safeEqualSecret(extractHookToken(req), HookSecret)
     THEN IF failure.throttle.throttled
          THEN [call |-> HookDone(call, HookResponse(429, retryAfter, "",
                                                     TextBody("Too Many Requests")), <<>>),
                map |-> failure.map]
          ELSE [call |-> HookDone(call, sendText(401, "Unauthorized"), <<>>),
                map |-> failure.map]
     ELSE IF req.method # "POST"
     THEN [call |-> HookDone(call, HookResponse(405, 0, "POST",
                                                TextBody("Method Not Allowed")), <<>>),
           map |-> m]
     ELSE IF subPath = <<>>
     THEN [call |-> HookDone(call, sendText(404, "Not Found"), <<>>),
           map |-> m]
     ELSE [call |-> call, map |-> clearHookAuthFailure(m, clientKey)]

\* Mutant: a throttled key is answered 429 before its token is compared.
hooksHandlerStart_ThrottleFirst(req, m, now) ==
  LET call == HookCall("body", req, m, NoHookResponse, FALSE, <<>>)
      clientKey == resolveHookClientKey(req)
      failure == recordHookAuthFailure(m, clientKey, now)
      retryAfter == IF failure.throttle.retryAfterSeconds = 0 THEN 1
                    ELSE failure.throttle.retryAfterSeconds
      subPath == hookSubPath(req.pathname, HOOKS_BASE_PATH)
  IN IF ~req.config.enabled
     THEN [call |-> HookCall("done", req, m, NoHookResponse, FALSE, <<>>), map |-> m]
     ELSE IF ~isUnderHooksBasePath(req.pathname, HOOKS_BASE_PATH)
     THEN [call |-> HookCall("done", req, m, NoHookResponse, FALSE, <<>>), map |-> m]
     ELSE IF req.queryToken
     THEN [call |-> HookDone(call, sendText(400, "Hook token must be provided via header"), <<>>),
           map |-> m]
     ELSE IF /\ MapHas(m, clientKey)
             /\ MapGet(m, clientKey).count > HOOK_AUTH_FAILURE_LIMIT
             /\ ~isHookWindowExpired(MapGet(m, clientKey), now)
     THEN [call |-> HookDone(call, HookResponse(429, retryAfter, "",
                                                TextBody("Too Many Requests")), <<>>),
           map |-> m]
     ELSE IF ~safeEqualSecret(extractHookToken(req), HookSecret)
     THEN IF failure.throttle.throttled
          THEN [call |-> HookDone(call, HookResponse(429, retryAfter, "",
                                                     TextBody("Too Many Requests")), <<>>),
                map |-> failure.map]
          ELSE [call |-> HookDone(call, sendText(401, "Unauthorized"), <<>>),
                map |-> failure.map]
     ELSE IF req.method # "POST"
     THEN [call |-> HookDone(call, HookResponse(405, 0, "POST",
                                                TextBody("Method Not Allowed")), <<>>),
           map |-> clearHookAuthFailure(m, clientKey)]
     ELSE IF subPath = <<>>
     THEN [call |-> HookDone(call, sendText(404, "Not Found"), <<>>),
           map |-> clearHookAuthFailure(m, clientKey)]
     ELSE [call |-> call, map |-> clearHookAuthFailure(m, clientKey)]

\* Lines 298-354: from the call to the await of readJsonBody. Yields the call
\* (done, or waiting for the body) and the failure map it leaves.
hooksHandlerStart(req, m, now) ==
  LET call == HookCall("body", req, m, NoHookResponse, FALSE, <<>>)
      clientKey == resolveHookClientKey(req)
      failure == recordHookAuthFailure(m, clientKey, now)
      retryAfter == IF failure.throttle.retryAfterSeconds = 0 THEN 1
                    ELSE failure.throttle.retryAfterSeconds
      subPath == hookSubPath(req.pathname, HOOKS_BASE_PATH)
  IN IF ~req.config.enabled
     THEN [call |-> HookCall("done", req, m, NoHookResponse, FALSE, <<>>), map |-> m]
     ELSE IF ~isUnderHooksBasePath(req.pathname, HOOKS_BASE_PATH)
     THEN [call |-> HookCall("done", req, m, NoHookResponse, FALSE, <<>>), map |-> m]
     ELSE IF req.queryToken
     THEN [call |-> HookDone(call, sendText(400, "Hook token must be provided via header"), <<>>),
           map |-> m]
     ELSE IF ~safeEqualSecret(extractHookToken(req), HookSecret)
     THEN IF failure.throttle.throttled
          THEN [call |-> HookDone(call, HookResponse(429, retryAfter, "",
                                                     TextBody("Too Many Requests")), <<>>),
                map |-> failure.map]
          ELSE [call |-> HookDone(call, sendText(401, "Unauthorized"), <<>>),
                map |-> failure.map]
     ELSE IF req.method # "POST"
     THEN [call |-> HookDone(call, HookResponse(405, 0, "POST",
                                                TextBody("Method Not Allowed")), <<>>),
           map |-> clearHookAuthFailure(m, clientKey)]
     ELSE IF subPath = <<>>
     THEN [call |-> HookDone(call, sendText(404, "Not Found"), <<>>),
           map |-> clearHookAuthFailure(m, clientKey)]
     ELSE [call |-> call, map |-> clearHookAuthFailure(m, clientKey)]

\* Mutant: the agent allow-list is not consulted on the `agent` sub-route.
hooksDispatchAgent_SkipPolicy(call, payload, runId) ==
  LET normalized == normalizeAgentPayload(payload)
      sessionKey == resolveHookSessionKey(payload.sessionKey)
  IN IF ~normalized.ok THEN HookDone(call, sendJson(400, JsonError(normalized.error)), <<>>)
     ELSE IF ~sessionKey.ok
     THEN HookDone(call, sendJson(400, JsonError(sessionKey.error)), <<>>)
     ELSE HookDone(call, sendJson(202, HookBody("json", TRUE, "", "", runId)),
                   <<[kind |-> "agent", mode |-> "", sessionKey |-> sessionKey.value,
                      runId |-> runId]>>)

\* Lines 380-406: an agent action of the reserved `agent` sub-route.
hooksDispatchAgent(call, payload, runId) ==
  LET normalized == normalizeAgentPayload(payload)
      sessionKey == resolveHookSessionKey(payload.sessionKey)
  IN IF ~normalized.ok THEN HookDone(call, sendJson(400, JsonError(normalized.error)), <<>>)
     ELSE IF ~isHookAgentAllowed(payload.agentId)
     THEN HookDone(call, sendJson(400, JsonError(getHookAgentPolicyError)), <<>>)
     ELSE IF ~sessionKey.ok
     THEN HookDone(call, sendJson(400, JsonError(sessionKey.error)), <<>>)
     ELSE HookDone(call, sendJson(202, HookBody("json", TRUE, "", "", runId)),
                   <<[kind |-> "agent", mode |-> "", sessionKey |-> sessionKey.value,
                      runId |-> runId]>>)

\* Mutant: the wake dispatcher is invoked before the payload is validated.
hooksHandlerBody_DispatchFirst(call, body, runId) ==
  LET subPath == hookSubPath(call.req.pathname, HOOKS_BASE_PATH)
      status == IF body.error = "payload too large" THEN 413
                ELSE IF body.error = "request body timeout" THEN 408 ELSE 400
      wake == normalizeWakePayload(body.value)
      woken == <<[kind |-> "wake", mode |-> wake.mode, sessionKey |-> "", runId |-> ""]>>
  IN IF ~body.ok THEN HookDone(call, sendJson(status, JsonError(body.error)), <<>>)
     ELSE IF subPath = <<"wake">>
     THEN IF ~wake.ok THEN HookDone(call, sendJson(400, JsonError(wake.error)), woken)
          ELSE HookDone(call, sendJson(200, HookBody("json", TRUE, "", wake.mode, "")), woken)
     ELSE IF subPath = <<"agent">> THEN hooksDispatchAgent(call, body.value, runId)
     ELSE IF call.req.config.hasMappings
     THEN HookCall("mapping", call.req, call.before, NoHookResponse, FALSE, <<>>)
     ELSE HookDone(call, sendText(404, "Not Found"), <<>>)

\* Mutant: an unknown sub-path without mapping rules is left to the next
\* router stage.
hooksHandlerBody_PassesUnknown(call, body, runId) ==
  LET subPath == hookSubPath(call.req.pathname, HOOKS_BASE_PATH)
      status == IF body.error = "payload too large" THEN 413
                ELSE IF body.error = "request body timeout" THEN 408 ELSE 400
      wake == normalizeWakePayload(body.value)
  IN IF ~body.ok THEN HookDone(call, sendJson(status, JsonError(body.error)), <<>>)
     ELSE IF subPath = <<"wake">>
     THEN IF ~wake.ok THEN HookDone(call, sendJson(400, JsonError(wake.error)), <<>>)
          ELSE HookDone(call, sendJson(200, HookBody("json", TRUE, "", wake.mode, "")),
                        <<[kind |-> "wake", mode |-> wake.mode, sessionKey |-> "",
                           runId |-> ""]>>)
     ELSE IF subPath = <<"agent">> THEN hooksDispatchAgent(call, body.value, runId)
     ELSE IF call.req.config.hasMappings
     THEN HookCall("mapping", call.req, call.before, NoHookResponse, FALSE, <<>>)
     ELSE HookCall("done", call.req, call.before, NoHookResponse, FALSE, <<>>)

\* Mutant: a wake payload that fails to normalise is offered to the mapping
\* rules.
hooksHandlerBody_MapsReserved(call, body, runId) ==
  LET subPath == hookSubPath(call.req.pathname, HOOKS_BASE_PATH)
      status == IF body.error = "payload too large" THEN 413
                ELSE IF body.error = "request body timeout" THEN 408 ELSE 400
      wake == normalizeWakePayload(body.value)
  IN IF ~body.ok THEN HookDone(call, sendJson(status, JsonError(body.error)), <<>>)
     ELSE IF subPath = <<"wake">>
     THEN IF ~wake.ok
          THEN IF call.req.config.hasMappings
               THEN HookCall("mapping", call.req, call.before, NoHookResponse, FALSE, <<>>)
               ELSE HookDone(call, sendJson(400, JsonError(wake.error)), <<>>)
          ELSE HookDone(call, sendJson(200, HookBody("json", TRUE, "", wake.mode, "")),
                        <<[kind |-> "wake", mode |-> wake.mode, sessionKey |-> "",
                           runId |-> ""]>>)
     ELSE IF subPath = <<"agent">> THEN hooksDispatchAgent(call, body.value, runId)
     ELSE IF call.req.config.hasMappings
     THEN HookCall("mapping", call.req, call.before, NoHookResponse, FALSE, <<>>)
     ELSE HookDone(call, sendText(404, "Not Found"), <<>>)

\* Lines 355-410 and 476-479: from the body to a response, or to the await of
\* applyHookMappings.
hooksHandlerBody(call, body, runId) ==
  LET subPath == hookSubPath(call.req.pathname, HOOKS_BASE_PATH)
      status == IF body.error = "payload too large" THEN 413
                ELSE IF body.error = "request body timeout" THEN 408 ELSE 400
      wake == normalizeWakePayload(body.value)
  IN IF ~body.ok THEN HookDone(call, sendJson(status, JsonError(body.error)), <<>>)
     ELSE IF subPath = <<"wake">>
     THEN IF ~wake.ok THEN HookDone(call, sendJson(400, JsonError(wake.error)), <<>>)
          ELSE HookDone(call, sendJson(200, HookBody("json", TRUE, "", wake.mode, "")),
                        <<[kind |-> "wake", mode |-> wake.mode, sessionKey |-> "",
                           runId |-> ""]>>)
     ELSE IF subPath = <<"agent">> THEN hooksDispatchAgent(call, body.value, runId)
     ELSE IF call.req.config.hasMappings
     THEN HookCall("mapping", call.req, call.before, NoHookResponse, FALSE, <<>>)
     ELSE HookDone(call, sendText(404, "Not Found"), <<>>)

\* Mutant: a mapped wake action is answered with the mode "now".
hooksHandlerMapped_ModeNow(call, mapped, runId) ==
  LET sessionKey == resolveHookSessionKey(mapped.sessionKey) IN
  CASE mapped.kind = "throws" ->
         HookDone(call, sendJson(500, JsonError("hook mapping failed")), <<>>)
    [] mapped.kind = "nomatch" -> HookDone(call, sendText(404, "Not Found"), <<>>)
    [] mapped.kind = "error" ->
         HookDone(call, sendJson(400, JsonError(mapped.error)), <<>>)
    [] mapped.kind = "skip" ->
         HookDone(call, HookResponse(204, 0, "", HookBody("empty", FALSE, "", "", "")), <<>>)
    [] mapped.kind = "wake" ->
         HookDone(call, sendJson(200, HookBody("json", TRUE, "", "now", "")),
                  <<[kind |-> "wake", mode |-> mapped.mode, sessionKey |-> "",
                     runId |-> ""]>>)
    [] OTHER ->
         IF ~mapped.channelOk
         THEN HookDone(call, sendJson(400, JsonError(getHookChannelError)), <<>>)
         ELSE IF ~isHookAgentAllowed(mapped.agentId)
         THEN HookDone(call, sendJson(400, JsonError(getHookAgentPolicyError)), <<>>)
         ELSE IF ~sessionKey.ok
         THEN HookDone(call, sendJson(400, JsonError(sessionKey.error)), <<>>)
         ELSE HookDone(call, sendJson(202, HookBody("json", TRUE, "", "", runId)),
                       <<[kind |-> "agent", mode |-> "", sessionKey |-> sessionKey.value,
                          runId |-> runId]>>)

\* Mutant: the 500 answer carries the text of the exception.
hooksHandlerMapped_LeaksError(call, mapped, runId) ==
  LET sessionKey == resolveHookSessionKey(mapped.sessionKey) IN
  CASE mapped.kind = "throws" ->
         HookDone(call, sendJson(500, JsonError(mapped.error)), <<>>)
    [] mapped.kind = "nomatch" -> HookDone(call, sendText(404, "Not Found"), <<>>)
    [] mapped.kind = "error" ->
         HookDone(call, sendJson(400, JsonError(mapped.error)), <<>>)
    [] mapped.kind = "skip" ->
         HookDone(call, HookResponse(204, 0, "", HookBody("empty", FALSE, "", "", "")), <<>>)
    [] mapped.kind = "wake" ->
         HookDone(call, sendJson(200, HookBody("json", TRUE, "", mapped.mode, "")),
                  <<[kind |-> "wake", mode |-> mapped.mode, sessionKey |-> "",
                     runId |-> ""]>>)
    [] OTHER ->
         IF ~mapped.channelOk
         THEN HookDone(call, sendJson(400, JsonError(getHookChannelError)), <<>>)
         ELSE IF ~isHookAgentAllowed(mapped.agentId)
         THEN HookDone(call, sendJson(400, JsonError(getHookAgentPolicyError)), <<>>)
         ELSE IF ~sessionKey.ok
         THEN HookDone(call, sendJson(400, JsonError(sessionKey.error)), <<>>)
         ELSE HookDone(call, sendJson(202, HookBody("json", TRUE, "", "", runId)),
                       <<[kind |-> "agent", mode |-> "", sessionKey |-> sessionKey.value,
                          runId |-> runId]>>)

\* Lines 410-479: from the result of applyHookMappings to a response.
hooksHandlerMapped(call, mapped, runId) ==
  LET sessionKey == resolveHookSessionKey(mapped.sessionKey) IN
  CASE mapped.kind = "throws" ->
         HookDone(call, sendJson(500, JsonError("hook mapping failed")), <<>>)
    [] mapped.kind = "nomatch" -> HookDone(call, sendText(404, "Not Found"), <<>>)
    [] mapped.kind = "error" ->
         HookDone(call, sendJson(400, JsonError(mapped.error)), <<>>)
    [] mapped.kind = "skip" ->
         HookDone(call, HookResponse(204, 0, "", HookBody("empty", FALSE, "", "", "")), <<>>)
    [] mapped.kind = "wake" ->
         HookDone(call, sendJson(200, HookBody("json", TRUE, "", mapped.mode, "")),
                  <<[kind |-> "wake", mode |-> mapped.mode, sessionKey |-> "",
                     runId |-> ""]>>)
    [] OTHER ->
         IF ~mapped.channelOk
         THEN HookDone(call, sendJson(400, JsonError(getHookChannelError)), <<>>)
         ELSE IF ~isHookAgentAllowed(mapped.agentId)
         THEN HookDone(call, sendJson(400, JsonError(getHookAgentPolicyError)), <<>>)
         ELSE IF ~sessionKey.ok
         THEN HookDone(call, sendJson(400, JsonError(sessionKey.error)), <<>>)
         ELSE HookDone(call, sendJson(202, HookBody("json", TRUE, "", "", runId)),
                       <<[kind |-> "agent", mode |-> "", sessionKey |-> sessionKey.value,
                          runId |-> runId]>>)

(***************************************************************************)
(* Hooks request handler: state machine                                    *)
(***************************************************************************)
\* The handler calls that may be in progress at once.
HookSlots == {1}

\* The calls that may be in progress at once when requests overlap.
AllHookSlots == {1, 2}

\* The values Date.now() takes.
HookClockValues == {0, 1000, 59999, 60000, 119999}

\* No failure count is taken beyond this.
MaxHookFailures == 22

HookClientKeys == {resolveHookClientKey([remoteAddress |-> a]) : a \in HookRemoteAddrs}

\* The run of wrong-token requests of a key, as an observer counts it: it starts
\* with the first wrong-token request, ends 60 seconds later or with a
\* matching-token request, and n is the number of requests in it.
NoRun == [first |-> 0, n |-> 0]

observeHookRequest(runs, req, now) ==
  LET key == resolveHookClientKey(req)
      run == runs[key]
  IN IF ~req.config.enabled \/ ~isUnderHooksBasePath(req.pathname, HOOKS_BASE_PATH)
        \/ req.queryToken
     THEN runs
     ELSE IF req.token = HookSecret THEN [runs EXCEPT ![key] = NoRun]
     ELSE IF run.n = 0 \/ now - run.first >= 60000
     THEN [runs EXCEPT ![key] = [first |-> now, n |-> 1]]
     ELSE [runs EXCEPT ![key] = [first |-> run.first, n |-> run.n + 1]]

NoLimiterCall == [op |-> "none", key |-> 0, now |-> 0, before |-> <<>>,
                  throttle |-> [throttled |-> FALSE, retryAfterSeconds |-> 0],
                  calls |-> 0]

\* The client keys the observer of the direct calls follows.
ObservedKeys == 0..(HOOK_AUTH_FAILURE_TRACK_MAX + 1)

HookInit ==
  /\ hookAuthFailures = <<>>
  /\ nowMs = 0
  /\ hookCalls = [slot \in AllHookSlots |-> IdleHookCall]
  /\ limiterLast = NoLimiterCall
  /\ wrongTokenRuns = [key \in HookClientKeys |-> NoRun]
  /\ lastFailureSeq = [key \in ObservedKeys |-> 0]

\* A finished call is handed back to the router before anything else runs.
NoHookCallDone == \A slot \in AllHookSlots : hookCalls[slot].pc # "done"

\* Date.now() moves on.
ClockAdvance(t) ==
  /\ NoHookCallDone
  /\ t > nowMs
  /\ nowMs' = t
  /\ UNCHANGED <<canvasVars, routerVars, auxVars, hookAuthFailures, hookCalls, limiterLast, wrongTokenRuns,
               lastFailureSeq>>

\* The router calls the handler: lines 298-354 run without suspension.
HookArrive(slot, req) ==
  LET out == hooksHandlerStart(req, hookAuthFailures, nowMs) IN
  /\ NoHookCallDone
  /\ hookCalls[slot].pc = "idle"
  /\ \A i \in DOMAIN out.map : out.map[i].count <= MaxHookFailures
  /\ hookCalls' = [hookCalls EXCEPT ![slot] = out.call]
  /\ hookAuthFailures' = out.map
  /\ wrongTokenRuns' = observeHookRequest(wrongTokenRuns, req, nowMs)
  /\ UNCHANGED <<canvasVars, routerVars, auxVars, nowMs, limiterLast, lastFailureSeq>>

\* readJsonBody settles: lines 355-410 run without suspension.
HookBodyRead(slot, body, runId) ==
  /\ NoHookCallDone
  /\ hookCalls[slot].pc = "body"
  /\ hookCalls' = [hookCalls EXCEPT ![slot] =
                      [hooksHandlerBody(hookCalls[slot], body, runId) EXCEPT !.body = body]]
  /\ UNCHANGED <<canvasVars, routerVars, auxVars, hookAuthFailures, nowMs, limiterLast, wrongTokenRuns,
               lastFailureSeq>>

\* applyHookMappings settles: lines 416-479 run without suspension.
HookMappingDone(slot, mapped, runId) ==
  /\ NoHookCallDone
  /\ hookCalls[slot].pc = "mapping"
  /\ hookCalls' = [hookCalls EXCEPT ![slot] =
                      [hooksHandlerMapped(hookCalls[slot], mapped, runId)
                         EXCEPT !.body = hookCalls[slot].body, !.mapped = mapped]]
  /\ UNCHANGED <<canvasVars, routerVars, auxVars, hookAuthFailures, nowMs, limiterLast, wrongTokenRuns,
               lastFailureSeq>>

\* The handler's promise resolved: the router has the response and the value.
HookReturn(slot) ==
  /\ hookCalls[slot].pc = "done"
  /\ hookCalls' = [hookCalls EXCEPT ![slot] = IdleHookCall]
  /\ UNCHANGED <<canvasVars, routerVars, auxVars, hookAuthFailures, nowMs, limiterLast, wrongTokenRuns,
               lastFailureSeq>>

HookNext ==
  \/ \E t \in HookClockValues : ClockAdvance(t)
  \/ \E slot \in HookSlots, req \in HookRequests : HookArrive(slot, req)
  \/ \E slot \in HookSlots, body \in HookBodyResults, runId \in HookRunIds :
       HookBodyRead(slot, body, runId)
  \/ \E slot \in HookSlots, mapped \in HookMappingResults, runId \in HookRunIds :
       HookMappingDone(slot, mapped, runId)
  \/ \E slot \in HookSlots : HookReturn(slot)

(***************************************************************************)
(* Hooks request handler: overlapping requests on the one event loop       *)
(***************************************************************************)
\* No failure count is taken beyond this while requests overlap.
MaxConcurrentFailures == 3

\* Authenticated-route POSTs with the matching or a wrong header token.
ConcurrentHookRequests ==
  { req \in HookRequests :
      /\ req.config = [enabled |-> TRUE, hasMappings |-> TRUE]
      /\ req.pathname \in {<<"hooks", "wake">>, <<"hooks", "github">>}
      /\ ~req.queryToken
      /\ req.token \in {HookSecret, WrongHookSecret}
      /\ req.method = "POST" }

ConcurrentHookBodies ==
  { body \in HookBodyResults :
      \/ body.error = "invalid json"
      \/ body.ok /\ body.value.text = "ping" /\ body.value.mode = "now" }

ConcurrentHookMappings ==
  { mapped \in HookMappingResults : mapped.kind \in {"nomatch", "wake"} }

\* The handler takes a request up, maybe while another call is suspended.
ConcurrentHookArrive(slot, req) ==
  /\ HookArrive(slot, req)
  /\ \A i \in DOMAIN hookAuthFailures' :
       hookAuthFailures'[i].count <= MaxConcurrentFailures

\* A second request may arrive, and the clock may move, while a call waits for
\* its body or its mapping.
ConcurrentHookNext ==
  \/ \E t \in HookClockValues : ClockAdvance(t)
  \/ \E slot \in AllHookSlots, req \in ConcurrentHookRequests :
       ConcurrentHookArrive(slot, req)
  \/ \E slot \in AllHookSlots, body \in ConcurrentHookBodies :
       HookBodyRead(slot, body, "run-a")
  \/ \E slot \in AllHookSlots, mapped \in ConcurrentHookMappings :
       HookMappingDone(slot, mapped, "run-a")
  \/ \E slot \in AllHookSlots : HookReturn(slot)

(***************************************************************************)
(* Hook auth-failure limiter: state machine of direct calls                *)
(***************************************************************************)
\* The client keys the calls are made with: the oldest and the newest caller of
\* a filled map, and callers no filled map holds.
LimiterKeys == {1, HOOK_AUTH_FAILURE_TRACK_MAX - 1, HOOK_AUTH_FAILURE_TRACK_MAX + 1,
                UnknownClientKey}

\* The calls made in one behaviour.
MaxLimiterCalls == 2

\* The map after callers 1..n failed once each, in this order: the first `old`
\* of them at time 0, the others at time 59999.
FilledMap(n, old) ==
  [i \in 1..n |-> MapEntry(i, 1, IF i <= old THEN 0 ELSE 59999)]

\* The filled maps a behaviour may start from: one or no free place, and none,
\* one, half or all of the entries old.
FilledSizes == {HOOK_AUTH_FAILURE_TRACK_MAX - 1, HOOK_AUTH_FAILURE_TRACK_MAX}

FilledOld(n) == {0, 1, n \div 2, n}

\* The state after construction, or a state with a filled map at time 59999.
LimiterInit ==
  /\ CanvasInit
  /\ hookCalls = [slot \in AllHookSlots |-> IdleHookCall]
  /\ wrongTokenRuns = [key \in HookClientKeys |-> NoRun]
  /\ limiterLast = NoLimiterCall
  /\ \/ /\ hookAuthFailures = <<>>
        /\ nowMs = 0
        /\ lastFailureSeq = [key \in ObservedKeys |-> 0]
     \/ \E n \in FilledSizes : \E old \in FilledOld(n) :
          /\ hookAuthFailures = FilledMap(n, old)
          /\ nowMs = 59999
          /\ lastFailureSeq = [key \in ObservedKeys |-> IF key \in 1..n THEN key ELSE 0]

LimiterCall(op, key, now, before, throttle, calls) ==
  [op |-> op, key |-> key, now |-> now, before |-> before, throttle |-> throttle,
   calls |-> calls]

\* recordHookAuthFailure(key, Date.now()).
LimiterRecord(key) ==
  LET out == recordHookAuthFailure(hookAuthFailures, key, nowMs) IN
  /\ limiterLast.calls < MaxLimiterCalls
  /\ hookAuthFailures' = out.map
  /\ limiterLast' = LimiterCall("record", key, nowMs, hookAuthFailures, out.throttle,
                                limiterLast.calls + 1)
  /\ lastFailureSeq' = [lastFailureSeq EXCEPT
                          ![key] = HOOK_AUTH_FAILURE_TRACK_MAX + limiterLast.calls + 1]
  /\ UNCHANGED <<canvasVars, routerVars, auxVars, nowMs, hookCalls, wrongTokenRuns>>

\* clearHookAuthFailure(key).
LimiterClear(key) ==
  /\ limiterLast.calls < MaxLimiterCalls
  /\ hookAuthFailures' = clearHookAuthFailure(hookAuthFailures, key)
  /\ limiterLast' = LimiterCall("clear", key, nowMs, hookAuthFailures,
                                [throttled |-> FALSE, retryAfterSeconds |-> 0],
                                limiterLast.calls + 1)
  /\ UNCHANGED <<canvasVars, routerVars, auxVars, nowMs, hookCalls, wrongTokenRuns, lastFailureSeq>>

LimiterNext ==
  \/ \E t \in HookClockValues : ClockAdvance(t)
  \/ \E key \in LimiterKeys : LimiterRecord(key)
  \/ \E key \in LimiterKeys : LimiterClear(key)

(***************************************************************************)
(* Router (createBunGatewayHandlers.fetch): ordinary requests               *)
(***************************************************************************)
\* What a stage does with the request: whether it ends the response, and
\* whether it returns true (claimed), returns false (pass) or throws.
RouterOutcomes == [ended : BOOLEAN, result : {"claimed", "pass", "throws"}]

\* What authorizeGatewayConnect / authorizeCanvasRequest gives the router.
RouterAuthVerdicts == {"ok", "unauthorized", "rate_limited", "throws"}

\* The index of the next step the code reaches from step `from` on (0: none).
routerNextStage(opts, pathname, from) ==
  LET reached == {i \in from..Len(RouterStages) :
                    routerStageApplies(RouterStages[i], opts, pathname)}
  IN IF reached = {} THEN 0 ELSE CHOOSE i \in reached : \A j \in reached : i <= j

\* Lines 751-756: the catch of the router.
routerCatch(res) == IF ~res.hasResolved THEN routerEnd(res, 500) ELSE res

\* Lines 747-750: nothing claimed the request.
routerFallback(res) == IF ~res.hasResolved THEN routerEnd(res, 404) ELSE res

\* Mutant: a stage that throws is skipped and the next stage is tried.
routerAfterStage_SkipsThrow(opts, call, idx, outcome) ==
  LET stage == RouterStages[idx]
      res == IF outcome.ended THEN routerEnd(call.res, 200) ELSE call.res
      log == Append(call.invoked, [stage |-> stage, result |-> outcome.result])
      more == routerNextStage(opts, call.pathname, idx + 1) # 0
  IN IF outcome.result = "claimed"
     THEN RouterCall("done", call.pathname, idx + 1, log, res)
     ELSE IF more THEN RouterCall("run", call.pathname, idx + 1, log, res)
     ELSE RouterCall("done", call.pathname, idx + 1, log, routerFallback(res))

\* Mutant: a stage that claimed the request does not stop the chain.
routerAfterStage_IgnoresClaim(opts, call, idx, outcome) ==
  LET stage == RouterStages[idx]
      res == IF outcome.ended THEN routerEnd(call.res, 200) ELSE call.res
      log == Append(call.invoked, [stage |-> stage, result |-> outcome.result])
      more == routerNextStage(opts, call.pathname, idx + 1) # 0
  IN IF outcome.result = "throws"
     THEN RouterCall("done", call.pathname, idx + 1, log, routerCatch(res))
     ELSE IF more THEN RouterCall("run", call.pathname, idx + 1, log, res)
     ELSE RouterCall("done", call.pathname, idx + 1, log, routerFallback(res))

\* Lines 646-756: the call after the stage at step idx has settled.
routerAfterStage(opts, call, idx, outcome) ==
  LET stage == RouterStages[idx]
      res == IF outcome.ended THEN routerEnd(call.res, 200) ELSE call.res
      log == Append(call.invoked, [stage |-> stage, result |-> outcome.result])
      more == routerNextStage(opts, call.pathname, idx + 1) # 0
  IN IF outcome.result = "claimed"
     THEN RouterCall("done", call.pathname, idx + 1, log, res)
     ELSE IF outcome.result = "throws"
     THEN RouterCall("done", call.pathname, idx + 1, log, routerCatch(res))
     ELSE IF more THEN RouterCall("run", call.pathname, idx + 1, log, res)
     ELSE RouterCall("done", call.pathname, idx + 1, log, routerFallback(res))

\* Mutant: the plugin handler is tried also after a failed auth check.
routerAfterAuth_FailOpen(call, idx, verdict) ==
  LET stage == RouterStages[idx]
      log == Append(call.invoked, [stage |-> stage, result |-> verdict])
  IN IF verdict = "throws"
     THEN RouterCall("done", call.pathname, idx + 1, log, routerCatch(call.res))
     ELSE RouterCall("run", call.pathname, idx + 1, log, call.res)

\* Lines 667-681 and 711-723: the call after the auth check at step idx has
\* settled; sendGatewayAuthFailure answers 429 when rate limited, else 401.
routerAfterAuth(call, idx, verdict) ==
  LET stage == RouterStages[idx]
      log == Append(call.invoked, [stage |-> stage, result |-> verdict])
  IN CASE verdict = "ok" -> RouterCall("run", call.pathname, idx + 1, log, call.res)
       [] verdict = "throws" ->
            RouterCall("done", call.pathname, idx + 1, log, routerCatch(call.res))
       [] verdict = "rate_limited" ->
            RouterCall("done", call.pathname, idx + 1, log, routerEnd(call.res, 429))
       [] OTHER ->
            RouterCall("done", call.pathname, idx + 1, log, routerEnd(call.res, 401))

RouterInit ==
  /\ clients = {}
  /\ gatewayBlocked = {}
  /\ canvasLast = NoCanvasCall
  /\ fallbackLapsed = {}
  /\ HookInit
  /\ routerOpts \in RouterOptsChoices
  /\ routerCalls = [slot \in RouterSlots |-> IdleRouterCall]
  /\ AuxIdle

\* A finished call resolves before anything else runs.
NoRouterCallDone == \A slot \in RouterSlots : routerCalls[slot].pc # "done"

\* fetch is called with an ordinary request (lines 588-645).
RouterArrive(slot, pathname) ==
  /\ NoRouterCallDone
  /\ routerCalls[slot].pc = "idle"
  /\ routerCalls' = [routerCalls EXCEPT ![slot] =
                       RouterCall("run", pathname, 1, <<>>, NewRouterShim)]
  /\ UNCHANGED <<canvasVars, hookVars, auxVars, routerOpts>>

\* The next stage is invoked and settles.
RouterStageRun(slot, outcome) ==
  LET call == routerCalls[slot]
      idx == routerNextStage(routerOpts, call.pathname, call.next)
  IN /\ NoRouterCallDone
     /\ call.pc = "run"
     /\ idx # 0
     /\ RouterStages[idx] \notin RouterAuthStages
     /\ RouterStages[idx] = "config" => ~outcome.ended /\ outcome.result # "claimed"
     /\ routerCalls' = [routerCalls EXCEPT ![slot] =
                          routerAfterStage(routerOpts, call, idx, outcome)]
     /\ UNCHANGED <<canvasVars, hookVars, auxVars, routerOpts>>

\* The auth check before the plugin handler or the canvas stages settles.
RouterAuthRun(slot, verdict) ==
  LET call == routerCalls[slot]
      idx == routerNextStage(routerOpts, call.pathname, call.next)
  IN /\ NoRouterCallDone
     /\ call.pc = "run"
     /\ idx # 0
     /\ RouterStages[idx] \in RouterAuthStages
     /\ routerCalls' = [routerCalls EXCEPT ![slot] = routerAfterAuth(call, idx, verdict)]
     /\ UNCHANGED <<canvasVars, hookVars, auxVars, routerOpts>>

\* The async function of the call has returned.
RouterReturn(slot) ==
  /\ routerCalls[slot].pc = "done"
  /\ routerCalls' = [routerCalls EXCEPT ![slot] = IdleRouterCall]
  /\ UNCHANGED <<canvasVars, hookVars, auxVars, routerOpts>>

RouterNext ==
  \/ \E slot \in RouterSlots : \E pathname \in RouterPaths : RouterArrive(slot, pathname)
  \/ \E slot \in RouterSlots : \E outcome \in RouterOutcomes : RouterStageRun(slot, outcome)
  \/ \E slot \in RouterSlots : \E verdict \in RouterAuthVerdicts : RouterAuthRun(slot, verdict)
  \/ \E slot \in RouterSlots : RouterReturn(slot)

(***************************************************************************)
(* Initial state of the HTTP handlers when another component is exercised  *)
(***************************************************************************)
QuietInit ==
  /\ clients = {}
  /\ gatewayBlocked = {}
  /\ canvasLast = NoCanvasCall
  /\ fallbackLapsed = {}
  /\ HookInit
  /\ routerOpts = AllRouterOpts
  /\ routerCalls = [slot \in RouterSlots |-> IdleRouterCall]

(***************************************************************************)
(* Method scope table: state machine                                       *)
(***************************************************************************)
ScopesInit ==
  /\ QuietInit
  /\ scopeCall = NoScopeCall
  /\ WsIdle /\ ChatIdle /\ BroadcastIdle /\ ToolIdle /\ ShimIdle /\ ArgvIdle

\* A caller asks for the scopes a method requires.
ScopeResolve(method) ==
  /\ scopeCall = NoScopeCall
  /\ scopeCall' = ScopeCall("resolve", method,
                            resolveLeastPrivilegeOperatorScopesForMethod(method), {}, FALSE)
  /\ UNCHANGED <<canvasVars, hookVars, routerVars, shimVars, argvVars, wsVars, chatVars, broadcastVars, toolVars>>

\* A connection holding the scopes `granted` asks to invoke a method.
ScopeAuthorize(method, granted) ==
  /\ scopeCall = NoScopeCall
  /\ LET required == resolveLeastPrivilegeOperatorScopesForMethod(method)
     IN scopeCall' = ScopeCall("authorize", method, required, granted,
                               scopesPermit(granted, required))
  /\ UNCHANGED <<canvasVars, hookVars, routerVars, shimVars, argvVars, wsVars, chatVars, broadcastVars, toolVars>>

\* The call returns to its caller.
ScopeReturn ==
  /\ scopeCall # NoScopeCall
  /\ scopeCall' = NoScopeCall
  /\ UNCHANGED <<canvasVars, hookVars, routerVars, shimVars, argvVars, wsVars, chatVars, broadcastVars, toolVars>>

ScopesNext ==
  \/ ScopeReturn
  \/ \E method \in MethodNames : ScopeResolve(method)
  \/ \E method \in MethodNames : \E granted \in GrantedScopeSets :
       ScopeAuthorize(method, granted)

(***************************************************************************)
(* BunWebSocketServer: state machine                                       *)
(***************************************************************************)
WsInit ==
  /\ clients = {}
  /\ gatewayBlocked = {}
  /\ canvasLast = NoCanvasCall
  /\ fallbackLapsed = {}
  /\ HookInit
  /\ routerOpts \in RouterOptsChoices
  /\ routerCalls = [slot \in RouterSlots |-> IdleRouterCall]
  /\ scopeCall = NoScopeCall
  /\ WsIdle /\ ChatIdle /\ BroadcastIdle /\ ToolIdle /\ ShimIdle /\ ArgvIdle

\* fetch answers a websocket upgrade request (lines 523-583); on success
\* server.upgrade attached the data to the new socket (lines 574, 579).
WsUpgrade(ws, pathname, ok, canvasUpgrades, plainUpgrades) ==
  LET out == fetchUpgrade(routerOpts.canvasHost, pathname, ok, canvasUpgrades,
                          plainUpgrades)
      authorized == routerOpts.canvasHost /\ pathname = CANVAS_WS_PATH
  IN
  /\ ~upgradeLast.called
  /\ ~sockets[ws].upgraded
  /\ sockets' = IF out.upgradedAs = "none" THEN sockets
                ELSE [sockets EXCEPT ![ws] = Socket(TRUE, out.upgradedAs = "canvas",
                                                    NoShim, FALSE, FALSE)]
  /\ wsLast' = WsCall("upgrade", ws, wssClients, <<>>, <<>>)
  /\ upgradeLast' = UpgradeCall(TRUE, ws, pathname, authorized,
                                IF authorized THEN ok ELSE AuthUnauthorized, out)
  /\ UNCHANGED <<wssClients, canvasClients, canvasVars, hookVars, routerVars, shimVars, argvVars, scopeVars,
                 chatVars, broadcastVars, toolVars>>

\* The Response of the upgrade request has been returned.
WsUpgradeReturn ==
  /\ upgradeLast.called
  /\ upgradeLast' = NoUpgradeCall
  /\ UNCHANGED <<sockets, wssClients, wsLast, canvasClients, canvasVars, hookVars,
                 routerVars, shimVars, argvVars, scopeVars, chatVars, broadcastVars, toolVars>>

\* Bun opens an upgraded socket, once.
WsOpen(ws) ==
  LET out == websocketOpen(wssClients, sockets, ws) IN
  /\ ~upgradeLast.called
  /\ sockets[ws].upgraded /\ ~sockets[ws].opened /\ ~sockets[ws].closed
  /\ wssClients' = out.clients
  /\ sockets' = [out.sockets EXCEPT ![ws].opened = TRUE]
  /\ wsLast' = WsCall("open", ws, wssClients, out.emitted, out.canvasCalls)
  /\ canvasClients' = IF routerOpts.canvasHost
                      THEN canvasHostApply(canvasClients, out.canvasCalls, ws)
                      ELSE canvasClients
  /\ UNCHANGED <<upgradeLast, canvasVars, hookVars, routerVars, shimVars, argvVars, scopeVars, chatVars, broadcastVars,
                 toolVars>>

\* A message arrives on an open socket.
WsMessage(ws) ==
  LET out == websocketMessage(wssClients, sockets, ws) IN
  /\ ~upgradeLast.called
  /\ sockets[ws].opened /\ ~sockets[ws].closed
  /\ wssClients' = out.clients
  /\ sockets' = out.sockets
  /\ wsLast' = WsCall("message", ws, wssClients, out.emitted, out.canvasCalls)
  /\ canvasClients' = IF routerOpts.canvasHost
                      THEN canvasHostApply(canvasClients, out.canvasCalls, ws)
                      ELSE canvasClients
  /\ UNCHANGED <<upgradeLast, canvasVars, hookVars, routerVars, shimVars, argvVars, scopeVars, chatVars, broadcastVars,
                 toolVars>>

\* The close callback runs for an upgraded socket, opened or not, once.
WsClose(ws) ==
  LET out == websocketClose(wssClients, sockets, ws) IN
  /\ ~upgradeLast.called
  /\ sockets[ws].upgraded /\ ~sockets[ws].closed
  /\ wssClients' = out.clients
  /\ sockets' = [out.sockets EXCEPT ![ws].closed = TRUE]
  /\ wsLast' = WsCall("close", ws, wssClients, out.emitted, out.canvasCalls)
  /\ canvasClients' = IF routerOpts.canvasHost
                      THEN canvasHostApply(canvasClients, out.canvasCalls, ws)
                      ELSE canvasClients
  /\ UNCHANGED <<upgradeLast, canvasVars, hookVars, routerVars, shimVars, argvVars, scopeVars, chatVars, broadcastVars,
                 toolVars>>

WsNext ==
  \/ \E ws \in SocketIds, pathname \in UpgradePaths, ok \in UpgradeAuthResults,
        canvasUpgrades \in BOOLEAN, plainUpgrades \in BOOLEAN :
       WsUpgrade(ws, pathname, ok, canvasUpgrades, plainUpgrades)
  \/ WsUpgradeReturn
  \/ \E ws \in SocketIds : WsOpen(ws)
  \/ \E ws \in SocketIds : WsMessage(ws)
  \/ \E ws \in SocketIds : WsClose(ws)

(***************************************************************************)
(* Chat run registry: state machine                                        *)
(***************************************************************************)
ChatInit ==
  /\ QuietInit
  /\ scopeCall = NoScopeCall
  /\ WsIdle /\ ChatIdle /\ BroadcastIdle /\ ToolIdle /\ ShimIdle /\ ArgvIdle

\* A run starts: at most one entry per (sessionId, clientRunId) is registered.
ChatAdd(sessionId, entry) ==
  /\ chatRunIndex(chatRuns[sessionId], entry.clientRunId, NoSessionKey) = 0
  /\ chatRuns' = addChatRun(chatRuns, sessionId, entry)
  /\ chatLast' = ChatCall("add", sessionId, entry.clientRunId, entry.sessionKey, chatRuns,
                          NoChatRun, FALSE, FALSE)
  /\ UNCHANGED <<canvasVars, hookVars, routerVars, shimVars, argvVars, scopeVars, wsVars, broadcastVars,
                 toolVars>>

\* A run ends or is aborted; the caller may be late or repeat itself.
ChatRemove(sessionId, clientRunId, sessionKey) ==
  LET out == removeChatRun(chatRuns, sessionId, clientRunId, sessionKey) IN
  /\ chatRuns' = out.registry
  /\ chatLast' = ChatCall("remove", sessionId, clientRunId, sessionKey, chatRuns,
                          out.entry, out.threw,
                          /\ chatLast.op = "remove"
                          /\ chatLast.returned # NoChatRun
                          /\ chatLast.sessionId = sessionId
                          /\ chatLast.clientRunId = clientRunId
                          /\ chatLast.sessionKey = sessionKey)
  /\ UNCHANGED <<canvasVars, hookVars, routerVars, shimVars, argvVars, scopeVars, wsVars, broadcastVars,
                 toolVars>>

ChatNext ==
  \/ \E sessionId \in ChatSessionIds, entry \in ChatRunEntries : ChatAdd(sessionId, entry)
  \/ \E sessionId \in ChatSessionIds, clientRunId \in ChatClientRunIds,
        sessionKey \in ChatSessionKeys \cup {NoSessionKey} :
       ChatRemove(sessionId, clientRunId, sessionKey)

(***************************************************************************)
(* Broadcaster: state machine                                              *)
(***************************************************************************)
BroadcastInit ==
  /\ QuietInit
  /\ scopeCall = NoScopeCall
  /\ WsIdle /\ ChatIdle /\ BroadcastIdle /\ ToolIdle /\ ShimIdle /\ ArgvIdle

\* A state change is fanned out to the live sessions.
Broadcast(stateVersion, unreachable) ==
  LET out == broadcast(dedupe, stateVersion, unreachable) IN
  /\ dedupe' = out.dedupe
  /\ broadcastLast' = BroadcastCall(TRUE, stateVersion, unreachable, dedupe, out.delivered)
  /\ UNCHANGED <<canvasVars, hookVars, routerVars, shimVars, argvVars, scopeVars, wsVars, chatVars, toolVars>>

BroadcastNext ==
  \E stateVersion \in StateVersionOpts, unreachable \in SUBSET BroadcastConnIds :
    Broadcast(stateVersion, unreachable)

(***************************************************************************)
(* Tool execution events: state machine                                    *)
(***************************************************************************)
ToolInit ==
  /\ QuietInit
  /\ scopeCall = NoScopeCall
  /\ WsIdle /\ ChatIdle /\ BroadcastIdle /\ ToolIdle /\ ShimIdle /\ ArgvIdle

\* tool_execution_start arrives for a new tool call.
ToolExecutionStart(toolCallId, toolName, action) ==
  /\ toolState.started[toolCallId] = NoToolStart
  /\ toolState' = handleToolExecutionStart(toolState, toolCallId, toolName, action)
  /\ UNCHANGED <<canvasVars, hookVars, routerVars, shimVars, argvVars, scopeVars, wsVars, chatVars,
                 broadcastVars>>

\* tool_execution_end arrives for a started tool call.
ToolExecutionEnd(toolCallId, isError) ==
  /\ toolState.started[toolCallId] # NoToolStart
  /\ toolState.ended[toolCallId] = ""
  /\ toolState' = handleToolExecutionEnd(toolState, toolCallId, isError)
  /\ UNCHANGED <<canvasVars, hookVars, routerVars, shimVars, argvVars, scopeVars, wsVars, chatVars,
                 broadcastVars>>

ToolNext ==
  \/ \E toolCallId \in ToolCallIds, toolName \in ToolNames, action \in ToolActions :
       ToolExecutionStart(toolCallId, toolName, action)
  \/ \E toolCallId \in ToolCallIds, isError \in BOOLEAN :
       ToolExecutionEnd(toolCallId, isError)

(***************************************************************************)
(* The response shim of one ordinary request (lines 588-644, 747-756)      *)
(***************************************************************************)
ShimInit ==
  /\ QuietInit
  /\ scopeCall = NoScopeCall
  /\ WsIdle /\ ChatIdle /\ BroadcastIdle /\ ToolIdle /\ ShimIdle /\ ArgvIdle

\* fetch builds the shim of a request (lines 590, 617-644).
ShimNew ==
  /\ shimCall.pc = "idle"
  /\ shimCall' = ShimCall("run", NewRouterShim, <<>>)
  /\ UNCHANGED <<canvasVars, hookVars, routerVars, argvVars, scopeVars, wsVars, chatVars,
                 broadcastVars, toolVars>>

\* A stage sets the status and calls end().
ShimStageEnd(status) ==
  /\ shimCall.pc = "run"
  /\ Len(shimCall.ends) < MaxShimEnds
  /\ shimCall' = ShimCall("run", routerEnd(shimCall.res, status),
                          Append(shimCall.ends, status))
  /\ UNCHANGED <<canvasVars, hookVars, routerVars, argvVars, scopeVars, wsVars, chatVars,
                 broadcastVars, toolVars>>

\* No stage claimed the request (lines 747-750).
ShimFallback ==
  /\ shimCall.pc = "run"
  /\ shimCall' = ShimCall("done", routerFallback(shimCall.res), Append(shimCall.ends, 404))
  /\ UNCHANGED <<canvasVars, hookVars, routerVars, argvVars, scopeVars, wsVars, chatVars,
                 broadcastVars, toolVars>>

\* A stage threw (lines 751-756).
ShimCatch ==
  /\ shimCall.pc = "run"
  /\ shimCall' = ShimCall("done", routerCatch(shimCall.res), Append(shimCall.ends, 500))
  /\ UNCHANGED <<canvasVars, hookVars, routerVars, argvVars, scopeVars, wsVars, chatVars,
                 broadcastVars, toolVars>>

\* The request is over.
ShimReturn ==
  /\ shimCall.pc = "done"
  /\ shimCall' = IdleShimCall
  /\ UNCHANGED <<canvasVars, hookVars, routerVars, argvVars, scopeVars, wsVars, chatVars,
                 broadcastVars, toolVars>>

ShimNext ==
  \/ ShimNew
  \/ \E status \in ShimStatuses : ShimStageEnd(status)
  \/ ShimFallback
  \/ ShimCatch
  \/ ShimReturn

(***************************************************************************)
(* Safe-bin argv validation: calls                                         *)
(***************************************************************************)
ArgvInit ==
  /\ QuietInit
  /\ scopeCall = NoScopeCall
  /\ WsIdle /\ ChatIdle /\ BroadcastIdle /\ ToolIdle /\ ShimIdle /\ ArgvIdle

\* validateSafeBinArgv is called with an argument vector and a profile.
ArgvValidate ==
  /\ ~argvCall.called
  /\ \E args \in ArgvInputs, profile \in ArgvProfiles :
       argvCall' = ArgvCall(TRUE, args, profile, validateSafeBinArgv(args, profile))
  /\ UNCHANGED <<canvasVars, hookVars, routerVars, shimVars, scopeVars, wsVars, chatVars,
                 broadcastVars, toolVars>>

\* The caller has the verdict.
ArgvReturn ==
  /\ argvCall.called
  /\ argvCall' = NoArgvCall
  /\ UNCHANGED <<canvasVars, hookVars, routerVars, shimVars, scopeVars, wsVars, chatVars,
                 broadcastVars, toolVars>>

ArgvNext ==
  \/ ArgvValidate
  \/ ArgvReturn

(***************************************************************************)
(* Specifications                                                          *)
(***************************************************************************)
\* The state after construction: no client, no call, an empty failure map.
Init == CanvasInit /\ HookInit

SpecCanvas == Init /\ [][CanvasNext]_vars

SpecHooks == Init /\ [][HookNext]_vars

SpecLimiter == LimiterInit /\ [][LimiterNext]_vars

SpecRouter == RouterInit /\ [][RouterNext]_vars

SpecHooksConcurrent == Init /\ [][ConcurrentHookNext]_vars

SpecWs == WsInit /\ [][WsNext]_vars

SpecChat == ChatInit /\ [][ChatNext]_vars

SpecBroadcast == BroadcastInit /\ [][BroadcastNext]_vars

SpecShim == ShimInit /\ [][ShimNext]_vars

SpecArgv == ArgvInit /\ [][ArgvNext]_vars

SpecTools == ToolInit /\ [][ToolNext]_vars

SpecScopes == ScopesInit /\ [][ScopesNext]_vars

(***************************************************************************)
(* Canvas authorization: properties                                        *)
(***************************************************************************)
\* The effective client IP of the recorded request.
CanvasClientIp == resolveGatewayClientIp(canvasLast.req.remoteAddress,
                    canvasLast.req.forwardedFor, canvasLast.req.realIp, TrustedProxies)

\* The recorded call was for a request that is not local-direct.
CanvasNonLocalCall == canvasLast.called /\ ~isLocalDirectRequest(canvasLast.req, TrustedProxies)

\* The recorded request presented no bearer token the gateway accepts.
CanvasNoAcceptedToken == canvasLast.req.token # GatewayToken

\* The four conditions of the IP-based fallback, stated on the recorded request
\* and the live client set.
CanvasFallbackConditions ==
  /\ CanvasClientIp # NoAddr
  /\ CanvasClientIp \in {LoopbackAddr, PrivateAddr, ProxyAddr}
  /\ \/ (canvasLast.req.forwardedFor = NoAddr /\ canvasLast.req.realIp = NoAddr)
     \/ canvasLast.req.remoteAddress \in TrustedProxies
  /\ \E c \in clients :
       /\ c.clientIp = CanvasClientIp
       /\ (c.role = "node" \/ c.mode \in {"node", "NODE"})

\* C1: a non-local request whose resolved client IP is public and that presents
\* no accepted bearer token is denied, also when a node client with exactly that
\* IP is in the live client set.
C1_PublicIpDenied ==
  (CanvasNonLocalCall /\ CanvasClientIp = PublicAddr /\ CanvasNoAcceptedToken)
    => ~canvasLast.result.ok

\* C1 witness: a denied public-IP request while a node client with that IP is live.
C1_Witness ==
  /\ CanvasNonLocalCall /\ CanvasClientIp = PublicAddr /\ CanvasNoAcceptedToken
  /\ \E c \in clients : c.clientIp = PublicAddr /\ c.role = "node"
  /\ ~canvasLast.result.ok

\* C2: for a non-local request without an accepted bearer token the result is
\* ok if and only if the client IP resolves, is private or loopback, the proxy
\* headers are absent or the peer is a trusted proxy, and a node client (by role
\* or by client mode) with that IP is in the live client set.
C2_FallbackIff ==
  (CanvasNonLocalCall /\ CanvasNoAcceptedToken)
    => (canvasLast.result.ok <=> CanvasFallbackConditions)

\* C2 witness: a credential-less request through the trusted proxy is authorized
\* by a node client of the forwarded address.
C2_Witness ==
  /\ CanvasNonLocalCall /\ canvasLast.req.token = NoToken
  /\ canvasLast.req.remoteAddress = ProxyAddr
  /\ canvasLast.req.forwardedFor = PrivateAddr
  /\ canvasLast.result.ok

\* C3: a local-direct request is authorized without authorizeGatewayConnect or
\* the rate limiter being consulted: the result is ok, no call was made and the
\* key's standing in the limiter is what it was, even for a blocked key and a
\* wrong bearer token.
C3_LocalDirectAlwaysOk ==
  (canvasLast.called /\ isLocalDirectRequest(canvasLast.req, TrustedProxies))
    => /\ canvasLast.result.ok
       /\ ~canvasLast.consulted
       /\ (gatewayClientKey(canvasLast.req) \in gatewayBlocked) = canvasLast.blockedBefore

\* C3 witness: a local-direct request with a wrong token from a blocked key is authorized.
C3_Witness ==
  /\ canvasLast.called /\ isLocalDirectRequest(canvasLast.req, TrustedProxies)
  /\ canvasLast.req.token = WrongToken
  /\ gatewayClientKey(canvasLast.req) \in gatewayBlocked
  /\ canvasLast.result.ok

\* C4: a non-local request whose bearer token authorizeGatewayConnect rejected
\* is still authorized whenever the IP-fallback conditions hold.
C4_TokenFailureNotFinal ==
  (CanvasNonLocalCall /\ canvasLast.req.token = WrongToken /\ CanvasFallbackConditions)
    => (canvasLast.consulted /\ ~canvasLast.gateway.ok /\ canvasLast.result.ok)

\* C4 witness: a request with a rejected (even rate-limited) token is authorized by the fallback.
C4_Witness ==
  /\ CanvasNonLocalCall /\ canvasLast.req.token = WrongToken
  /\ canvasLast.consulted /\ canvasLast.gateway.rateLimited
  /\ canvasLast.result.ok

\* C5: a denial of a request that presented a rejected bearer token is exactly
\* the failure authorizeGatewayConnect returned (reason, rateLimited,
\* retryAfterMs); a denial of a request without a bearer token is
\* {ok: false, reason: 'unauthorized'}.
C5_DenialSurfacesFailure ==
  (canvasLast.called /\ ~canvasLast.result.ok)
    => IF canvasLast.req.token = NoToken
       THEN canvasLast.result = AuthUnauthorized
       ELSE canvasLast.consulted /\ canvasLast.result = canvasLast.gateway

\* C5 witness: a rate-limited token failure is surfaced by a denial on the public-IP path.
C5_Witness ==
  /\ canvasLast.called /\ ~canvasLast.result.ok
  /\ canvasLast.req.token = WrongToken
  /\ CanvasClientIp = PublicAddr
  /\ canvasLast.result.rateLimited /\ canvasLast.result.retryAfterMs = GatewayRetryAfterMs

(***************************************************************************)
(* Hooks request handler: properties                                       *)
(***************************************************************************)
\* The handler got as far as looking at the request's credentials: hooks are
\* configured and the path is the base path or below it.
HookUnderBase(req) ==
  req.config.enabled /\ isUnderHooksBasePath(req.pathname, HOOKS_BASE_PATH)

HookKeyOf(call) == resolveHookClientKey(call.req)

\* C6: a request under the hooks base path with a `token` query parameter is
\* answered 400 and claimed whatever its header token, method, path or body: it
\* never waits for a body or a mapping, nothing is dispatched, and the failure
\* map is the one the call found (no failure recorded, no window cleared).
C6_QueryTokenRejected ==
  \A slot \in HookSlots :
    LET call == hookCalls[slot] IN
    (call.pc # "idle" /\ HookUnderBase(call.req) /\ call.req.queryToken)
      => /\ call.pc = "done"
         /\ call.res.status = 400
         /\ call.claimed
         /\ call.dispatched = <<>>
         /\ hookAuthFailures = call.before

\* C6 witness: a POST with the matching header token and a `token` query
\* parameter is answered 400 while the caller's failure window stays recorded.
C6_Witness ==
  \E slot \in HookSlots :
    LET call == hookCalls[slot] IN
    /\ call.pc = "done" /\ HookUnderBase(call.req) /\ call.req.queryToken
    /\ call.req.token = HookSecret /\ call.req.method = "POST"
    /\ call.req.pathname = <<"hooks", "wake">>
    /\ call.res.status = 400
    /\ MapHas(hookAuthFailures, HookKeyOf(call))
    /\ MapGet(hookAuthFailures, HookKeyOf(call)).count >= 1

\* C7: counting a key's wrong-token requests from the first one of a 60-second
\* window (no matching-token request in between), the 1st to the 20th are
\* answered 401 and the 21st and every later one 429 with a Retry-After of at
\* least one second.
C7_ThrottleAfterTwenty ==
  \A slot \in HookSlots :
    LET call == hookCalls[slot]
        n == wrongTokenRuns[HookKeyOf(call)].n
    IN (call.pc = "done" /\ HookUnderBase(call.req) /\ ~call.req.queryToken
        /\ call.req.token # HookSecret)
         => /\ n >= 1
            /\ (n <= 20 => call.res.status = 401 /\ call.res.retryAfter = 0)
            /\ (n >= 21 => call.res.status = 429 /\ call.res.retryAfter >= 1)

\* C7 witness: the 20th wrong-token request of a window was answered 401 (seen
\* in the failure map) and the 22nd is answered 429.
C7_Witness ==
  \E slot \in HookSlots :
    LET call == hookCalls[slot] IN
    /\ call.pc = "done" /\ call.req.token = WrongHookSecret /\ ~call.req.queryToken
    /\ wrongTokenRuns[HookKeyOf(call)].n = 22
    /\ nowMs > wrongTokenRuns[HookKeyOf(call)].first
    /\ call.res.status = 429 /\ call.res.retryAfter >= 1

\* C9 (state part): the first wrong-token request after a matching-token one
\* (or after the window ran out) leaves an entry with count 1 whose window
\* starts now, and is answered 401.
C9_FreshWindow ==
  \A slot \in HookSlots :
    LET call == hookCalls[slot]
        key == HookKeyOf(call)
    IN (call.pc = "done" /\ HookUnderBase(call.req) /\ ~call.req.queryToken
        /\ call.req.token # HookSecret /\ wrongTokenRuns[key].n = 1)
         => /\ call.res.status = 401
            /\ MapHas(hookAuthFailures, key)
            /\ MapGet(hookAuthFailures, key).count = 1
            /\ MapGet(hookAuthFailures, key).windowStartedAtMs = nowMs

\* C9 (step part): in the very step in which the handler takes up a request
\* with the matching token, the caller's entry leaves the failure map, whether
\* the step ends in 405, in 404 or waiting for the body.
C9_ClearedOnMatch ==
  \A slot \in HookSlots :
    (/\ hookCalls[slot].pc = "idle"
     /\ hookCalls'[slot].pc # "idle"
     /\ HookUnderBase(hookCalls'[slot].req)
     /\ ~hookCalls'[slot].req.queryToken
     /\ hookCalls'[slot].req.token = HookSecret)
      => ~MapHas(hookAuthFailures', HookKeyOf(hookCalls'[slot]))

\* C9: a matching token removes the caller's failure entry before method,
\* sub-path and body are examined, so the next wrong-token request starts a
\* fresh window with count 1 and is answered 401.
C9_MatchClearsFailures == [](C9_FreshWindow) /\ [][C9_ClearedOnMatch]_vars

\* C9 witness: a throttled caller presents the matching token, the body read
\* times out (408), and its entry is gone.
C9_Witness ==
  \E slot \in HookSlots :
    LET call == hookCalls[slot] IN
    /\ call.pc = "done" /\ call.req.token = HookSecret /\ call.res.status = 408
    /\ MapHas(call.before, HookKeyOf(call))
    /\ MapGet(call.before, HookKeyOf(call)).count > HOOK_AUTH_FAILURE_LIMIT
    /\ ~MapHas(hookAuthFailures, HookKeyOf(call))

(***************************************************************************)
(* Properties of the hook auth-failure limiter (SpecLimiter)               *)
(***************************************************************************)
LimiterRecorded == limiterLast.op = "record"

\* The key of the last call had no entry before the call, or an entry whose
\* window had ended.
LimiterFreshOrExpired ==
  \/ ~MapHas(limiterLast.before, limiterLast.key)
  \/ limiterLast.now - MapGet(limiterLast.before, limiterLast.key).windowStartedAtMs
       >= HOOK_AUTH_FAILURE_WINDOW_MS

\* C8: recordHookAuthFailure(key, now) for a key that has no entry, or whose
\* entry satisfies now - windowStartedAtMs >= 60000, stores
\* {count: 1, windowStartedAtMs: now} and returns throttled=false; otherwise
\* it stores count+1 with windowStartedAtMs unchanged.
C8_WindowResetOrIncrement ==
  LimiterRecorded =>
    /\ MapHas(hookAuthFailures, limiterLast.key)
    /\ IF LimiterFreshOrExpired
       THEN /\ MapGet(hookAuthFailures, limiterLast.key)
                 = MapEntry(limiterLast.key, 1, limiterLast.now)
            /\ ~limiterLast.throttle.throttled
       ELSE LET was == MapGet(limiterLast.before, limiterLast.key) IN
            MapGet(hookAuthFailures, limiterLast.key)
              = MapEntry(limiterLast.key, was.count + 1, was.windowStartedAtMs)

\* A failure was recorded for a key whose window ended exactly 60000 ms after
\* it started, and the key was given a new window.
C8_Witness ==
  /\ LimiterRecorded
  /\ MapHas(limiterLast.before, limiterLast.key)
  /\ limiterLast.now - MapGet(limiterLast.before, limiterLast.key).windowStartedAtMs
       = HOOK_AUTH_FAILURE_WINDOW_MS
  /\ MapGet(hookAuthFailures, limiterLast.key)
       = MapEntry(limiterLast.key, 1, limiterLast.now)

\* C10: after any sequence of recordHookAuthFailure and clearHookAuthFailure
\* calls, the number of keys tracked in the hook failure map is at most 2048.
C10_TrackedKeysBounded ==
  /\ Len(hookAuthFailures) <= HOOK_AUTH_FAILURE_TRACK_MAX
  /\ Cardinality(MapKeys(hookAuthFailures)) = Len(hookAuthFailures)

\* A failure was recorded for an untracked key while the map held 2048 keys.
C10_Witness ==
  /\ LimiterRecorded
  /\ Len(limiterLast.before) = HOOK_AUTH_FAILURE_TRACK_MAX
  /\ ~MapHas(limiterLast.before, limiterLast.key)
  /\ MapHas(hookAuthFailures, limiterLast.key)

\* The entries of a map, as a set.
MapEntries(m) == {m[i] : i \in DOMAIN m}

\* The last call recorded a failure of an untracked key on a map at capacity.
LimiterRecordedAtCapacity ==
  /\ LimiterRecorded
  /\ ~MapHas(limiterLast.before, limiterLast.key)
  /\ Len(limiterLast.before) >= HOOK_AUTH_FAILURE_TRACK_MAX

LimiterExpiredBefore ==
  {e \in MapEntries(limiterLast.before) :
     limiterLast.now - e.windowStartedAtMs >= HOOK_AUTH_FAILURE_WINDOW_MS}

LimiterCurrentBefore ==
  {e \in MapEntries(limiterLast.before) :
     limiterLast.now - e.windowStartedAtMs < HOOK_AUTH_FAILURE_WINDOW_MS}

\* C11: when recordHookAuthFailure is called for an untracked key while the map
\* is at capacity, all expired entries are pruned, no key whose window is still
\* current is removed as long as any key with an expired window was in the map,
\* and current keys are evicted only if the map is still at capacity after the
\* pruning.
C11_ExpiredPrunedFirst ==
  LimiterRecordedAtCapacity =>
    /\ LimiterExpiredBefore \cap MapEntries(hookAuthFailures) = {}
    /\ LimiterExpiredBefore # {} =>
         LimiterCurrentBefore \subseteq MapEntries(hookAuthFailures)
    /\ ~(LimiterCurrentBefore \subseteq MapEntries(hookAuthFailures)) =>
         Cardinality(LimiterCurrentBefore) >= HOOK_AUTH_FAILURE_TRACK_MAX

\* A failure of an untracked key was recorded on a full map holding expired and
\* current entries: the expired ones are gone and the current ones are kept.
C11_Witness ==
  /\ LimiterRecordedAtCapacity
  /\ LimiterExpiredBefore # {}
  /\ LimiterCurrentBefore # {}
  /\ LimiterCurrentBefore \subseteq MapEntries(hookAuthFailures)
  /\ Len(hookAuthFailures) = Cardinality(LimiterCurrentBefore) + 1

\* The keys the last call removed, and the keys it kept beside its own.
LimiterEvictedKeys == MapKeys(limiterLast.before) \ MapKeys(hookAuthFailures)

LimiterSurvivingKeys == MapKeys(hookAuthFailures) \ {limiterLast.key}

\* The last call dropped the oldest half: it recorded an untracked key on a map
\* at capacity that held no expired entry.
LimiterDroppedOldestHalf ==
  /\ LimiterRecordedAtCapacity
  /\ LimiterExpiredBefore = {}

\* C12: the iteration order of the hook failure map always equals the order of
\* each key's most recent recorded failure, so in an oldest-half eviction every
\* evicted key's most recent failure was recorded no later than that of every
\* key that survives (stated with the first surviving entry as the dividing
\* line between the two).
C12_OrderIsFailureOrder ==
  /\ \A i \in 1..(Len(hookAuthFailures) - 1) :
       lastFailureSeq[hookAuthFailures[i].key]
         < lastFailureSeq[hookAuthFailures[i + 1].key]
  /\ LimiterDroppedOldestHalf =>
       LET line == lastFailureSeq[hookAuthFailures[1].key] IN
       /\ LimiterEvictedKeys # {}
       /\ \A key \in LimiterEvictedKeys : lastFailureSeq[key] <= line
       /\ \A key \in LimiterSurvivingKeys : lastFailureSeq[key] >= line

\* The oldest half was dropped, and the key that entered the map first survived
\* because a later failure of it had been recorded.
C12_Witness ==
  /\ LimiterDroppedOldestHalf
  /\ MapHas(hookAuthFailures, 1)
  /\ Len(hookAuthFailures) = (HOOK_AUTH_FAILURE_TRACK_MAX \div 2) + 1
  /\ lastFailureSeq[1] > HOOK_AUTH_FAILURE_TRACK_MAX

(***************************************************************************)
(* Properties of the hooks handler's checks and dispatch (SpecHooks)       *)
(***************************************************************************)
\* The calls that have answered: the handler claimed the request.
HookAnswered(call) == call.pc = "done" /\ call.claimed

\* The first check of the handler that the call's request fails.
HookFirstFailure(call) ==
  IF call.req.queryToken THEN "query"
  ELSE IF call.req.token # HookSecret THEN "token"
  ELSE IF call.req.method # "POST" THEN "method"
  ELSE IF call.req.pathname = HOOKS_BASE_PATH THEN "subpath"
  ELSE IF ~call.body.ok THEN "body"
  ELSE "payload"

\* C13: the hooks handler applies its checks in a fixed order and answers with
\* the first one that fails: `token` query parameter (400), token mismatch (429
\* or 401), method other than POST (405), empty sub-path (404), body read
\* failure (413 oversized, 408 timeout, 400 otherwise), then payload handling;
\* a call that fails an early check never reads the body, and a call that
\* reads the body or evaluates the mappings has passed the earlier checks.
C13_ChecksInOrder ==
  \A slot \in HookSlots :
    LET call == hookCalls[slot]
        failure == HookFirstFailure(call)
    IN /\ HookAnswered(call) =>
            CASE failure = "query" -> call.res.status = 400 /\ call.body = NoBody
              [] failure = "token" ->
                   /\ call.res.status = (IF wrongTokenRuns[HookKeyOf(call)].n
                                              > HOOK_AUTH_FAILURE_LIMIT
                                         THEN 429 ELSE 401)
                   /\ call.body = NoBody
              [] failure = "method" ->
                   call.res.status = 405 /\ call.res.allow = "POST" /\ call.body = NoBody
              [] failure = "subpath" -> call.res.status = 404 /\ call.body = NoBody
              [] failure = "body" ->
                   /\ call.res.status = (IF call.body.error = "payload too large" THEN 413
                                         ELSE IF call.body.error = "request body timeout"
                                         THEN 408 ELSE 400)
                   /\ call.res.body = JsonError(call.body.error)
                   /\ call.mapped = NoMapping
              [] OTHER -> call.res.status \in {200, 202, 204, 400, 404, 500}
       /\ call.pc \in {"body", "mapping"} => failure \in {"body", "payload"}
       /\ call.pc = "mapping" => failure = "payload"

\* A GET with the right token on the bare base path was answered 405.
C13_Witness ==
  \E slot \in HookSlots :
    /\ HookAnswered(hookCalls[slot])
    /\ hookCalls[slot].req.token = HookSecret
    /\ hookCalls[slot].req.method = "GET"
    /\ hookCalls[slot].req.pathname = HOOKS_BASE_PATH
    /\ ~hookCalls[slot].req.queryToken
    /\ hookCalls[slot].res.status = 405

\* The call's payload, or a mapping rule, gave a valid action.
HookValidAction(call) ==
  \/ call.req.pathname = HOOKS_BASE_PATH \o <<"wake">> /\ call.body.value.text # ""
  \/ call.req.pathname = HOOKS_BASE_PATH \o <<"agent">> /\ call.body.value.message # ""
  \/ /\ call.req.pathname \notin {HOOKS_BASE_PATH \o <<"wake">>, HOOKS_BASE_PATH \o <<"agent">>}
     /\ call.mapped.kind \in {"wake", "agent"}

\* C14: dispatchWakeHook or dispatchAgentHook is invoked for a hook request
\* only if its token matched, its method is POST, its sub-path is non-empty,
\* its body was read and parsed and the payload (or a mapping rule) gave a
\* valid action; at most one dispatcher is invoked, at most once; a request
\* answered with a 4xx status has triggered no dispatch.
C14_DispatchOnlyWhenValid ==
  \A slot \in HookSlots :
    LET call == hookCalls[slot] IN
    /\ Len(call.dispatched) <= 1
    /\ call.dispatched # <<>> =>
         /\ call.req.config.enabled
         /\ ~call.req.queryToken
         /\ call.req.token = HookSecret
         /\ call.req.method = "POST"
         /\ isUnderHooksBasePath(call.req.pathname, HOOKS_BASE_PATH)
         /\ call.req.pathname # HOOKS_BASE_PATH
         /\ call.body.ok
         /\ HookValidAction(call)
    /\ call.res.status \in 400..499 => call.dispatched = <<>>

\* A mapping rule gave an agent action and dispatchAgentHook was invoked once.
C14_Witness ==
  \E slot \in HookSlots :
    /\ HookAnswered(hookCalls[slot])
    /\ Len(hookCalls[slot].dispatched) = 1
    /\ hookCalls[slot].dispatched[1].kind = "agent"
    /\ hookCalls[slot].mapped.kind = "agent"

\* The sub-path of the call's request is neither `wake` nor `agent`.
HookNonReservedPath(call) ==
  /\ isUnderHooksBasePath(call.req.pathname, HOOKS_BASE_PATH)
  /\ call.req.pathname \notin {HOOKS_BASE_PATH, HOOKS_BASE_PATH \o <<"wake">>,
                               HOOKS_BASE_PATH \o <<"agent">>}

\* C15: a hook request that dispatches a wake action (direct or mapped) is
\* answered 200 with {ok:true, mode} where mode is the dispatched mode; one that
\* dispatches an agent action is answered 202 with {ok:true, runId} where runId
\* is the value dispatchAgentHook returned; a mapping that yields a null action
\* is answered 204 with no dispatch; a non-reserved sub-path for which no
\* mapping rule matches (or with no mappings configured) is answered 404 with
\* no dispatch.
C15_SuccessResponses ==
  \A slot \in HookSlots :
    LET call == hookCalls[slot] IN
    HookAnswered(call) =>
      /\ \A i \in DOMAIN call.dispatched :
           LET d == call.dispatched[i] IN
           /\ d.kind = "wake" =>
                /\ call.res = sendJson(200, HookBody("json", TRUE, "", d.mode, ""))
                /\ d.mode = (IF call.mapped.kind = "wake" THEN call.mapped.mode
                             ELSE IF call.body.value.mode = "next-heartbeat"
                             THEN "next-heartbeat" ELSE "now")
           /\ d.kind = "agent" =>
                /\ call.res = sendJson(202, HookBody("json", TRUE, "", "", d.runId))
                /\ d.runId \in HookRunIds
      /\ call.mapped.kind = "skip" =>
           /\ call.res.status = 204
           /\ call.res.body.kind = "empty"
           /\ call.dispatched = <<>>
      /\ /\ HookFirstFailure(call) = "payload"
         /\ HookNonReservedPath(call)
         /\ ~call.req.config.hasMappings \/ call.mapped.kind = "nomatch"
         => call.res.status = 404 /\ call.dispatched = <<>>

\* A mapping rule gave a wake action with mode next-heartbeat, answered 200 with
\* that mode.
C15_Witness ==
  \E slot \in HookSlots :
    /\ HookAnswered(hookCalls[slot])
    /\ hookCalls[slot].mapped.kind = "wake"
    /\ hookCalls[slot].dispatched # <<>>
    /\ hookCalls[slot].res.status = 200
    /\ hookCalls[slot].res.body.mode = "next-heartbeat"

\* The agent action of an answered call that got as far as the policy checks:
\* from the `agent` sub-route, or from a mapping rule with a known channel.
HookAgentAction(call) ==
  IF call.mapped.kind = "agent" /\ call.mapped.channelOk
  THEN [present |-> TRUE, agentId |-> call.mapped.agentId,
        sessionKey |-> call.mapped.sessionKey]
  ELSE IF /\ HookFirstFailure(call) = "payload"
          /\ call.req.pathname = HOOKS_BASE_PATH \o <<"agent">>
          /\ call.body.value.message # ""
  THEN [present |-> TRUE, agentId |-> call.body.value.agentId,
        sessionKey |-> call.body.value.sessionKey]
  ELSE [present |-> FALSE, agentId |-> "", sessionKey |-> ""]

\* C16: for an agent action, from the reserved `agent` sub-route or from a
\* mapping rule, dispatchAgentHook is invoked only after the target agent passed
\* the allow-list check and the session key resolved; if either fails the
\* request is answered 400 with a structured {ok:false, error} body, nothing is
\* dispatched and the handler returns normally, claiming the request.
C16_AgentPolicyBeforeDispatch ==
  \A slot \in HookSlots :
    LET call == hookCalls[slot]
        action == HookAgentAction(call)
        entitled == /\ isHookAgentAllowed(action.agentId)
                    /\ resolveHookSessionKey(action.sessionKey).ok
    IN HookAnswered(call) =>
         /\ (\E i \in DOMAIN call.dispatched : call.dispatched[i].kind = "agent") =>
              /\ action.present
              /\ entitled
              /\ call.dispatched[1].sessionKey = resolveHookSessionKey(action.sessionKey).value
         /\ action.present /\ ~entitled =>
              /\ call.res.status = 400
              /\ call.res.body.kind = "json"
              /\ ~call.res.body.ok
              /\ call.res.body.text # ""
              /\ call.dispatched = <<>>
              /\ call.claimed

\* An `agent` request for an agent the policy does not allow was answered 400.
C16_Witness ==
  \E slot \in HookSlots :
    /\ HookAnswered(hookCalls[slot])
    /\ hookCalls[slot].req.pathname = HOOKS_BASE_PATH \o <<"agent">>
    /\ hookCalls[slot].body.ok
    /\ hookCalls[slot].body.value.agentId = "rogue"
    /\ hookCalls[slot].res = sendJson(400, JsonError(getHookAgentPolicyError))
    /\ hookCalls[slot].dispatched = <<>>

\* C17: if evaluating the hook mapping rules throws, the hooks handler answers
\* 500 with the fixed body {ok:false, error:'hook mapping failed'}, whatever the
\* exception, claims the request (returns true) and dispatches nothing.
C17_MappingFailureIs500 ==
  \A slot \in HookSlots :
    LET call == hookCalls[slot] IN
    call.mapped.kind = "throws" =>
      /\ call.pc = "done"
      /\ call.claimed
      /\ call.res = sendJson(500, JsonError("hook mapping failed"))
      /\ call.dispatched = <<>>

\* applyHookMappings threw an error naming a file, and the call was answered 500.
C17_Witness ==
  \E slot \in HookSlots :
    /\ HookAnswered(hookCalls[slot])
    /\ hookCalls[slot].mapped.kind = "throws"
    /\ hookCalls[slot].mapped.error = "Error: transform failed /etc/hooks/t.js"
    /\ hookCalls[slot].res.status = 500

(***************************************************************************)
(* Properties of the router (SpecRouter)                                   *)
(* A response with status 200 was produced by a stage; 401, 429, 404 and   *)
(* 500 are the router's own answers.                                       *)
(***************************************************************************)
\* The handler stages in the order the router is to try them: hooks,
\* tools-invoke, Slack webhook, plugin routes, OpenResponses, OpenAI chat
\* completions, A2UI, canvas host, control UI avatar, control UI page.
RouterHandlerOrder ==
  <<"hooks", "tools", "slack", "plugin", "openresponses", "openai", "a2ui", "canvasHost",
    "avatar", "controlUi">>

RouterHandlerRank(stage) ==
  IF \E i \in DOMAIN RouterHandlerOrder : RouterHandlerOrder[i] = stage
  THEN CHOOSE i \in DOMAIN RouterHandlerOrder : RouterHandlerOrder[i] = stage
  ELSE 0

\* The handler stages the options configure.
RouterHandlerConfigured(stage) ==
  CASE stage = "plugin" -> routerOpts.handlePluginRequest
    [] stage = "openresponses" -> routerOpts.openResponsesEnabled
    [] stage = "openai" -> routerOpts.openAiChatCompletionsEnabled
    [] stage \in {"a2ui", "canvasHost"} -> routerOpts.canvasHost
    [] stage \in {"avatar", "controlUi"} -> routerOpts.controlUiEnabled
    [] OTHER -> TRUE

RouterInvoked(call, stage) == \E i \in DOMAIN call.invoked : call.invoked[i].stage = stage

\* Every step of the call returned normally without claiming the request.
RouterAllPassed(call) ==
  \A i \in DOMAIN call.invoked : call.invoked[i].result \in {"pass", "ok"}

\* C18: for an ordinary request the router tries its stages in the fixed order
\* hooks, tools-invoke, Slack webhook, plugin routes, OpenResponses, OpenAI chat
\* completions, canvas (A2UI then canvas host), control UI (avatar then page),
\* skipping none that is configured; once a stage reports the request as
\* claimed no later stage is invoked; if no stage claims it and no response has
\* been produced, the response is 404.
C18_StagesInOrder ==
  \A slot \in RouterSlots :
    LET call == routerCalls[slot]
        rank(i) == RouterHandlerRank(call.invoked[i].stage)
    IN /\ \A i, j \in DOMAIN call.invoked :
            i < j /\ rank(i) # 0 /\ rank(j) # 0 => rank(i) < rank(j)
       /\ \A j \in DOMAIN call.invoked : \A r \in DOMAIN RouterHandlerOrder :
            r < rank(j) /\ RouterHandlerConfigured(RouterHandlerOrder[r])
              => RouterInvoked(call, RouterHandlerOrder[r])
       /\ \A i \in DOMAIN call.invoked :
            /\ ~RouterHandlerConfigured(call.invoked[i].stage) => rank(i) = 0
            /\ call.invoked[i].result = "claimed" => i = Len(call.invoked) /\ call.pc = "done"
       /\ call.pc = "done" /\ RouterAllPassed(call) =>
            /\ \A r \in DOMAIN RouterHandlerOrder :
                 RouterHandlerConfigured(RouterHandlerOrder[r])
                   => RouterInvoked(call, RouterHandlerOrder[r])
            /\ call.res.response # 200 => call.res.response = 404

\* With every stage configured, all ten handler stages were tried, none claimed
\* the request and it was answered 404.
C18_Witness ==
  \E slot \in RouterSlots :
    /\ routerCalls[slot].pc = "done"
    /\ RouterAllPassed(routerCalls[slot])
    /\ \A r \in DOMAIN RouterHandlerOrder :
         RouterInvoked(routerCalls[slot], RouterHandlerOrder[r])
    /\ routerCalls[slot].res.response = 404

\* A step of the router, or the config load, threw in the call.
RouterThrew(call) == \E i \in DOMAIN call.invoked : call.invoked[i].result = "throws"

C19_ThrowAnswered ==
  \A slot \in RouterSlots :
    LET call == routerCalls[slot] IN
    \A i \in DOMAIN call.invoked :
      call.invoked[i].result = "throws" =>
        /\ i = Len(call.invoked)
        /\ call.pc = "done"
        /\ call.res.hasResolved
        /\ call.res.response # 200 => call.res.response = 500

C19_OthersUnaffected ==
  \A slot \in RouterSlots :
    routerCalls'[slot] # routerCalls[slot] =>
      /\ \A other \in RouterSlots \ {slot} : routerCalls'[other] = routerCalls[other]
      /\ routerOpts' = routerOpts
      /\ routerCalls'[slot].pc = "run" /\ routerCalls[slot].pc = "idle"
           => routerCalls'[slot].res = NewRouterShim /\ routerCalls'[slot].invoked = <<>>

\* C19: if any router stage (or the config load) throws while an ordinary
\* request is handled and no response has been produced yet, the request is
\* answered 500, no later stage is invoked for it and the fetch promise still
\* resolves; the calls of other in-flight requests are not touched, and a later
\* request starts with a fresh response.
C19_ThrowIs500 == [](C19_ThrowAnswered) /\ [][C19_OthersUnaffected]_vars

\* A stage threw in one call, which was answered 500, while another call was
\* under way.
C19_Witness ==
  \E slot, other \in RouterSlots :
    /\ slot # other
    /\ RouterThrew(routerCalls[slot])
    /\ Len(routerCalls[slot].invoked) > 1
    /\ routerCalls[slot].res.response = 500
    /\ routerCalls[other].pc = "run"
    /\ routerCalls[other].invoked # <<>>

\* The request path starts with /api/channels/.
RouterChannelPath(call) ==
  /\ Len(call.pathname) >= 3
  /\ call.pathname[1] = "api"
  /\ call.pathname[2] = "channels"

\* C20: the plugin request handler is never invoked for a request whose path
\* starts with /api/channels/ unless authorizeGatewayConnect returned ok for
\* that request; on failure an auth-failure response is sent and neither the
\* plugin handler nor any later stage runs. For plugin paths outside that
\* prefix the router performs no auth check before invoking the plugin handler.
C20_ChannelRoutesGated ==
  \A slot \in RouterSlots :
    LET call == routerCalls[slot] IN
    \A i \in DOMAIN call.invoked :
      /\ call.invoked[i].stage = "plugin" =>
           IF RouterChannelPath(call)
           THEN i > 1 /\ call.invoked[i - 1] = [stage |-> "pluginAuth", result |-> "ok"]
           ELSE ~RouterInvoked(call, "pluginAuth")
      /\ call.invoked[i].stage = "pluginAuth" =>
           /\ RouterChannelPath(call)
           /\ routerOpts.handlePluginRequest
           /\ call.invoked[i].result \in {"unauthorized", "rate_limited"} =>
                /\ i = Len(call.invoked)
                /\ call.pc = "done"
                /\ call.res.hasResolved
                /\ call.res.response # 200 =>
                     call.res.response
                       = (IF call.invoked[i].result = "rate_limited" THEN 429 ELSE 401)

\* A request below /api/channels/ failed the auth check and was answered 401;
\* the plugin handler was not invoked.
C20_Witness ==
  \E slot \in RouterSlots :
    /\ routerCalls[slot].pc = "done"
    /\ RouterChannelPath(routerCalls[slot])
    /\ routerCalls[slot].invoked[Len(routerCalls[slot].invoked)]
         = [stage |-> "pluginAuth", result |-> "unauthorized"]
    /\ routerCalls[slot].res.response = 401
    /\ ~RouterInvoked(routerCalls[slot], "plugin")

\* The request path is the A2UI path, the canvas host path or below them, or
\* the canvas websocket path.
RouterCanvasPath(call) ==
  /\ Len(call.pathname) >= 2
  /\ call.pathname[1] = "__openclaw__"
  /\ \/ call.pathname[2] \in {"a2ui", "canvas"}
     \/ call.pathname = <<"__openclaw__", "ws">>

\* C21: for an ordinary request whose path is a canvas path, neither
\* handleA2uiHttpRequest nor canvasHost.handleHttpRequest is invoked unless
\* authorizeCanvasRequest returned ok; on denial the auth-failure response is
\* sent and no later stage (control UI, 404 fallback) runs.
C21_CanvasStagesGated ==
  \A slot \in RouterSlots :
    LET call == routerCalls[slot] IN
    RouterCanvasPath(call) =>
      \A i \in DOMAIN call.invoked :
        /\ call.invoked[i].stage \in {"a2ui", "canvasHost"} =>
             \E j \in 1..(i - 1) : call.invoked[j] = [stage |-> "canvasAuth", result |-> "ok"]
        /\ /\ call.invoked[i].stage = "canvasAuth"
           /\ call.invoked[i].result \in {"unauthorized", "rate_limited"}
           => /\ i = Len(call.invoked)
              /\ call.pc = "done"
              /\ call.res.hasResolved
              /\ call.res.response # 200 =>
                   call.res.response
                     = (IF call.invoked[i].result = "rate_limited" THEN 429 ELSE 401)

\* A request for the A2UI path was denied by authorizeCanvasRequest and
\* answered 401 after the earlier stages had passed it on.
C21_Witness ==
  \E slot \in RouterSlots :
    /\ routerCalls[slot].pc = "done"
    /\ routerCalls[slot].pathname = <<"__openclaw__", "a2ui">>
    /\ routerCalls[slot].invoked[Len(routerCalls[slot].invoked)]
         = [stage |-> "canvasAuth", result |-> "unauthorized"]
    /\ routerCalls[slot].res.response = 401

(***************************************************************************)
(* Method scope table: claims                                              *)
(***************************************************************************)
ScopeCalled == scopeCall.op # "none"

\* C22: resolveLeastPrivilegeOperatorScopesForMethod gives the same scope list
\* for the same method name on every call, and no method name satisfies more
\* than one of isApprovalMethod, isPairingMethod, isReadMethod, isWriteMethod
\* and isAdminOnlyMethod.
C22_ClassifiedOnce ==
  ScopeCalled =>
    /\ scopeCall.required = resolveLeastPrivilegeOperatorScopesForMethod(scopeCall.method)
    /\ Cardinality(methodClasses(scopeCall.method)) <= 1

\* The rank of the first check of the resolver a method name passes (6: none).
ScopeFirstMatch(method) ==
  IF method \in APPROVAL_METHODS THEN 1
  ELSE IF method \in PAIRING_METHODS THEN 2
  ELSE IF method \in READ_METHODS THEN 3
  ELSE IF method \in WRITE_METHODS THEN 4
  ELSE IF \/ method \in ADMIN_METHODS
          \/ /\ Len(method) >= 2
             /\ method[1] \in {"config", "wizard", "update"}
          \/ /\ Len(method) >= 3
             /\ method[1] = "exec" /\ method[2] = "approvals"
       THEN 5
  ELSE 6

ScopeOfRank ==
  <<  <<APPROVALS_SCOPE>>, <<PAIRING_SCOPE>>, <<READ_SCOPE>>, <<WRITE_SCOPE>>,
      <<ADMIN_SCOPE>>, <<>>  >>

\* C23: the resolver returns the single scope of the first matching check in
\* the order approvals, pairing, read, write, admin-only (a reserved prefix or
\* the explicit admin set), the empty list when no check matches, and never
\* more than one scope.
C23_FirstMatchDecides ==
  ScopeCalled =>
    /\ scopeCall.required = ScopeOfRank[ScopeFirstMatch(scopeCall.method)]
    /\ Len(scopeCall.required) <= 1

\* A name in two of the checked classes has been resolved (to the earlier one),
\* and so have a name with a reserved prefix and a name no check matches.
C23_Witness ==
  /\ scopeCall.op = "resolve"
  /\ scopeCall.method = <<"config", "get">>
  /\ scopeCall.required = <<READ_SCOPE>>

ScopeUnclassified(method) ==
  /\ method \notin APPROVAL_METHODS \cup PAIRING_METHODS \cup READ_METHODS
                  \cup WRITE_METHODS \cup ADMIN_METHODS
  /\ ~\E prefix \in ADMIN_METHOD_PREFIXES \cup {<<"config">>, <<"wizard">>, <<"update">>} :
        methodStartsWith(method, prefix)

\* C24: a method in none of the explicit sets and with none of the admin
\* prefixes, the node-role methods included, requires the empty scope list,
\* and no granted scope set, not even one holding the admin scope, permits it.
C24_UnclassifiedDenied ==
  /\ \A method \in NODE_ROLE_METHODS : ScopeUnclassified(method)
  /\ (ScopeCalled /\ ScopeUnclassified(scopeCall.method)) =>
        /\ scopeCall.required = <<>>
        /\ ~scopeCall.permitted

\* A connection holding every scope asked for a node-role method.
C24_Witness ==
  /\ scopeCall.op = "authorize"
  /\ scopeCall.method = <<"node", "event">>
  /\ scopeCall.granted = OperatorScope
  /\ ~scopeCall.permitted

(***************************************************************************)
(* Hooks request handler: claims about overlapping requests                *)
(***************************************************************************)
\* The slots whose call the handler takes up in this step (lines 298-354).
HookArriving(slot) == hookCalls[slot].pc = "idle" /\ hookCalls'[slot].pc # "idle"

\* The failure map holds, for every key, exactly the key's current run of
\* wrong-token requests as the observer counted them.
C25_CountsMatchRequests ==
  \A key \in HookClientKeys :
    LET run == wrongTokenRuns[key] IN
    IF run.n = 0 THEN ~MapHas(hookAuthFailures, key)
    ELSE /\ MapHas(hookAuthFailures, key)
         /\ MapGet(hookAuthFailures, key).count = run.n
         /\ MapGet(hookAuthFailures, key).windowStartedAtMs = run.first

\* The failure map changes only in the step that takes a request up, and there
\* by one increment (or one fresh window) of the value the map holds at that
\* moment, or by the removal of the entry.
C25_UpdateInOneStep ==
  /\ (\A slot \in AllHookSlots : ~HookArriving(slot))
       => hookAuthFailures' = hookAuthFailures
  /\ \A slot \in AllHookSlots :
       LET req == hookCalls'[slot].req
           key == resolveHookClientKey(req)
           old == MapGet(hookAuthFailures, key)
           new == MapGet(hookAuthFailures', key)
       IN HookArriving(slot) =>
            IF req.token = HookSecret THEN ~MapHas(hookAuthFailures', key)
            ELSE /\ MapHas(hookAuthFailures', key)
                 /\ IF MapHas(hookAuthFailures, key)
                       /\ nowMs - old.windowStartedAtMs < HOOK_AUTH_FAILURE_WINDOW_MS
                    THEN new.count = old.count + 1
                         /\ new.windowStartedAtMs = old.windowStartedAtMs
                    ELSE new.count = 1 /\ new.windowStartedAtMs = nowMs

\* C25: under any interleaving of overlapping hook requests (a call suspends
\* only at the body read and at mapping evaluation, after the auth step),
\* every wrong-token request adds exactly one to its key's failure count and
\* every matching-token request removes its key's entry, each in the single
\* step that takes the request up: no update is lost or made on a stale value.
C25_NoLostFailureUpdate == [](C25_CountsMatchRequests) /\ [][C25_UpdateInOneStep]_vars

\* C25 witness: while one call that arrived with the matching token still
\* waits for its mapping, two wrong-token requests were counted; the second
\* has just been answered.
C25_Witness ==
  \E waiting \in AllHookSlots, other \in AllHookSlots :
    /\ waiting # other
    /\ hookCalls[waiting].pc = "mapping"
    /\ hookCalls[waiting].req.token = HookSecret
    /\ hookCalls[waiting].before # hookAuthFailures
    /\ hookCalls[other].pc = "done"
    /\ hookCalls[other].req.token = WrongHookSecret
    /\ wrongTokenRuns[HookKeyOf(hookCalls[other])].n = 2
    /\ MapGet(hookAuthFailures, HookKeyOf(hookCalls[other])).count = 2

(***************************************************************************)
(* BunWebSocketServer: claims                                              *)
(***************************************************************************)
\* The non-canvas sockets Bun has opened and not yet closed.
WsLiveSockets ==
  { ws \in SocketIds : /\ sockets[ws].upgraded /\ ~sockets[ws].isCanvas
                       /\ sockets[ws].opened /\ ~sockets[ws].closed }

\* C26: after any sequence of websocket open and close events wss.clients
\* holds exactly the shims of the non-canvas sockets opened and not yet
\* closed; the close handler removes the shim before it emits 'close'; a close
\* for a socket that was never opened changes nothing and emits nothing.
C26_ClientsAreLiveSockets ==
  /\ wssClients = { sockets[ws].shim : ws \in WsLiveSockets }
  /\ \A ws \in WsLiveSockets : sockets[ws].shim # NoShim
  /\ wsLast.op = "close" =>
       /\ \A i \in DOMAIN wsLast.emitted :
            /\ wsLast.emitted[i].event = "close"
            /\ wsLast.emitted[i].shim \notin wsLast.emitted[i].clients
       /\ ~sockets[wsLast.ws].opened =>
            /\ wsLast.emitted = <<>>
            /\ wssClients = wsLast.before

\* C26 witness: of two open non-canvas sockets one was closed and its 'close'
\* event emitted, the other is still in the set; a canvas socket is open too.
C26_Witness ==
  /\ wsLast.op = "close"
  /\ Len(wsLast.emitted) = 1
  /\ Cardinality(wsLast.before) = 2
  /\ Cardinality(wssClients) = 1
  /\ \E ws \in SocketIds : sockets[ws].isCanvas /\ sockets[ws].opened /\ ~sockets[ws].closed

(***************************************************************************)
(* Chat run registry: claims                                               *)
(***************************************************************************)
\* The last call was a remove that found no run matching its arguments.
ChatRemovedAbsent ==
  /\ chatLast.op = "remove"
  /\ \A i \in DOMAIN chatLast.before[chatLast.sessionId] :
       LET entry == chatLast.before[chatLast.sessionId][i] IN
       \/ entry.clientRunId # chatLast.clientRunId
       \/ chatLast.sessionKey # NoSessionKey /\ entry.sessionKey # chatLast.sessionKey

\* C27: removeChatRun is idempotent: a second call with the arguments of a call
\* that removed and returned an entry returns undefined, does not throw and
\* leaves every registered run as it was; so does removing a run never added.
C27_RemoveIdempotent ==
  /\ chatLast.op = "remove" => ~chatLast.threw
  /\ (chatLast.op = "remove" /\ chatLast.again) =>
       /\ chatLast.returned = NoChatRun
       /\ chatRuns = chatLast.before
  /\ ChatRemovedAbsent =>
       /\ chatLast.returned = NoChatRun
       /\ chatRuns = chatLast.before

\* C27 witness: a remove was repeated while another run of the same session
\* and a run of another session stay registered.
C27_Witness ==
  /\ chatLast.op = "remove"
  /\ chatLast.again
  /\ chatLast.returned = NoChatRun
  /\ \A sessionId \in ChatSessionIds : chatRuns[sessionId] # <<>>

(***************************************************************************)
(* Broadcaster: claims                                                     *)
(***************************************************************************)
\* C28: for each (topic, connection) pair the state versions delivered by
\* broadcast are strictly increasing: a broadcast whose version for a topic is
\* not newer than the last one delivered to a connection is skipped for that
\* connection, and the recorded last-seen version never decreases.
C28_VersionsIncrease ==
  broadcastLast.called =>
    \A connId \in BroadcastConnIds : \A topic \in BroadcastTopics :
      LET version == broadcastLast.stateVersion[topic]
          seen == broadcastLast.before[connId][topic]
      IN /\ dedupe[connId][topic] >= seen
         /\ (version # NoVersion /\ version <= seen) => connId \notin broadcastLast.delivered
         /\ (version # NoVersion /\ connId \in broadcastLast.delivered)
              => version > seen /\ dedupe[connId][topic] = version
         /\ connId \notin broadcastLast.delivered => dedupe[connId][topic] = seen

\* C28 witness: presence 3 is broadcast after presence 5 was delivered to one
\* connection; it is skipped there and reaches the connection that missed 5.
C28_Witness ==
  /\ broadcastLast.called
  /\ broadcastLast.stateVersion["presence"] = 3
  /\ broadcastLast.before["conn-1"]["presence"] = 5
  /\ broadcastLast.unreachable = {}
  /\ broadcastLast.delivered = {"conn-2"}
  /\ dedupe["conn-1"]["presence"] = 5

(***************************************************************************)
(* Tool execution events: claims                                           *)
(***************************************************************************)
\* The cron calls started with action "add" whose end event reported no error.
ToolSucceededCronAdds ==
  { id \in ToolCallIds :
      /\ toolState.started[id].toolName = "cron"
      /\ toolState.started[id].action = "add"
      /\ toolState.ended[id] = "ok" }

HookThrottled(call) == call.pc = "done" /\ call.res.status = 429

\* The milliseconds left in the window of the call's key.
HookWindowLeftMs(call) ==
  MapGet(hookAuthFailures, HookKeyOf(call)).windowStartedAtMs
    + HOOK_AUTH_FAILURE_WINDOW_MS - nowMs

\* C30: whenever recordHookAuthFailure returns throttled, retryAfterSeconds is
\* a whole number from 1 to 60, the time left in the key's window in seconds,
\* rounded up (and at least 1).
C30_RetryAfterIsCeilOfTimeLeft ==
  \A slot \in HookSlots :
    LET call == hookCalls[slot]
        seconds == call.res.retryAfter
        left == HookWindowLeftMs(call)
    IN HookThrottled(call) =>
         /\ seconds \in 1..60
         /\ (seconds - 1) * 1000 < left
         /\ left <= seconds * 1000

\* C30 witness: a throttled call with 1001 ms left in the window is told to
\* retry after 2 seconds.
C30_Witness ==
  \E slot \in HookSlots :
    /\ HookThrottled(hookCalls[slot])
    /\ HookWindowLeftMs(hookCalls[slot]) = 1001
    /\ hookCalls[slot].res.retryAfter = 2

(***************************************************************************)
(* Hooks request handler: throttling and authenticated callers             *)
(***************************************************************************)
\* The failure count the call found recorded for its key (0: none).
HookCountBefore(call) ==
  IF MapHas(call.before, HookKeyOf(call))
  THEN MapGet(call.before, HookKeyOf(call)).count
  ELSE 0

\* C31: a hook request that presents the matching token is never answered 401
\* or 429, whatever failure count is recorded for its client key, also while
\* that key is throttled.
C31_MatchingTokenNeverThrottled ==
  \A slot \in HookSlots :
    LET call == hookCalls[slot] IN
    (call.pc # "idle" /\ HookUnderBase(call.req) /\ call.req.token = HookSecret)
      => call.res.status \notin {401, 429}

\* C31 witness: a key with 21 failures in a running window presents the
\* matching token and is dispatched.
C31_Witness ==
  \E slot \in HookSlots :
    LET call == hookCalls[slot] IN
    /\ call.pc = "done" /\ HookUnderBase(call.req) /\ ~call.req.queryToken
    /\ call.req.token = HookSecret
    /\ HookCountBefore(call) > HOOK_AUTH_FAILURE_LIMIT
    /\ nowMs - MapGet(call.before, HookKeyOf(call)).windowStartedAtMs
         < HOOK_AUTH_FAILURE_WINDOW_MS
    /\ call.res.status = 200
    /\ call.dispatched # <<>>

(***************************************************************************)
(* Hook auth-failure limiter: the lockout ends with the window             *)
(***************************************************************************)
\* A wrong-token call that has been answered, and the entry it found.
HookFailedCall(call) ==
  /\ call.pc = "done" /\ HookUnderBase(call.req) /\ ~call.req.queryToken
  /\ call.req.token # HookSecret
  /\ MapHas(call.before, HookKeyOf(call))

\* C32: failures recorded while a key is throttled never move its
\* windowStartedAtMs, so a key throttled in a window that started at t0 gets
\* throttled=false (here: 401, count 1) for its first failure at any time
\* >= t0 + 60000.
C32_LockoutEndsWithWindow ==
  \A slot \in HookSlots :
    LET call == hookCalls[slot]
        key == HookKeyOf(call)
        old == MapGet(call.before, key)
        new == MapGet(hookAuthFailures, key)
    IN (HookFailedCall(call) /\ old.count >= HOOK_AUTH_FAILURE_LIMIT) =>
         IF nowMs >= old.windowStartedAtMs + HOOK_AUTH_FAILURE_WINDOW_MS
         THEN /\ call.res.status = 401
              /\ new.count = 1
              /\ new.windowStartedAtMs = nowMs
         ELSE /\ call.res.status = 429
              /\ new.windowStartedAtMs = old.windowStartedAtMs

\* C32 witness: a key with 22 failures recorded in the window
\* that started at 0 fails again at 60000 and is answered 401.
C32_Witness ==
  \E slot \in HookSlots :
    LET call == hookCalls[slot] IN
    /\ HookFailedCall(call)
    /\ MapGet(call.before, HookKeyOf(call)).count = 22
    /\ MapGet(call.before, HookKeyOf(call)).windowStartedAtMs = 0
    /\ nowMs = 60000
    /\ call.res.status = 401

(***************************************************************************)
(* Hook auth-failure limiter: what a call does to the other keys           *)
(***************************************************************************)
\* The entries of the keys other than the one the last call was made for, in
\* map order, before and after the call.
LimiterOthersBefore ==
  SelectSeq(limiterLast.before, LAMBDA e : e.key # limiterLast.key)

LimiterOthersAfter ==
  SelectSeq(hookAuthFailures, LAMBDA e : e.key # limiterLast.key)

\* C33: recordHookAuthFailure(key) alters the entries of other keys only by
\* removing them, and only when key is untracked and the map already holds
\* 2048 keys; a failure for a tracked key, a failure for a new key below
\* capacity and clearHookAuthFailure(key) leave the count and window start of
\* every other key unchanged.
C33_OtherKeysUntouched ==
  limiterLast.op # "none" =>
    IF LimiterRecordedAtCapacity
    THEN MapEntries(LimiterOthersAfter) \subseteq MapEntries(LimiterOthersBefore)
    ELSE LimiterOthersAfter = LimiterOthersBefore

\* C33 witness: a failure of a tracked key was recorded on a map holding 2048
\* keys, and the other 2047 entries are all still there.
C33_Witness ==
  /\ limiterLast.op = "record"
  /\ Len(limiterLast.before) = HOOK_AUTH_FAILURE_TRACK_MAX
  /\ MapHas(limiterLast.before, limiterLast.key)
  /\ Len(LimiterOthersAfter) = HOOK_AUTH_FAILURE_TRACK_MAX - 1

(***************************************************************************)
(* Canvas authorization: the fallback follows the live client set          *)
(***************************************************************************)
\* The last call was a non-local request without a bearer token.
CanvasCredentialLessCall == CanvasNonLocalCall /\ canvasLast.req.token = NoToken

\* The node clients of the live set whose clientIp is the request's.
CanvasNodeClientsOfIp ==
  {c \in clients : isNodeWsClient(c) /\ c.clientIp = CanvasClientIp}

\* C34: the IP fallback is evaluated against the live client set at each
\* request: from the removal of the last node client with a clientIp until a
\* node client with that IP is added, non-local requests from it without
\* credentials are denied; a client that is not a node client never enables
\* the fallback.
C34_FallbackFollowsLiveClients ==
  /\ \A ip \in fallbackLapsed :
       ~\E c \in clients : isNodeWsClient(c) /\ c.clientIp = ip
  /\ (CanvasCredentialLessCall /\ CanvasClientIp \in fallbackLapsed)
       => ~canvasLast.result.ok
  /\ (CanvasCredentialLessCall /\ canvasLast.result.ok)
       => CanvasNodeClientsOfIp # {}

\* C34 witness: the node client of a private address has left, an operator
\* client with the same address is still connected, and a request from that
\* address without credentials was denied.
C34_Witness ==
  /\ CanvasCredentialLessCall
  /\ CanvasClientIp = PrivateAddr
  /\ PrivateAddr \in fallbackLapsed
  /\ \E c \in clients : c.clientIp = PrivateAddr /\ ~isNodeWsClient(c)
  /\ ~canvasLast.result.ok

(***************************************************************************)
(* fetch: the canvas websocket upgrade is gated by authorizeCanvasRequest  *)
(***************************************************************************)
\* fetch is answering an upgrade request for the canvas websocket path with a
\* canvas host configured.
UpgradeCanvasCall ==
  upgradeLast.called /\ routerOpts.canvasHost /\ upgradeLast.pathname = CANVAS_WS_PATH

\* C35: with a canvas host configured, an upgrade request for the canvas
\* websocket path is upgraded with isCanvas = true only if authorizeCanvasRequest
\* returned ok; on denial the response is 429 (with Retry-After when
\* retryAfterMs > 0) if the result is rate limited and 401 otherwise, and no
\* server.upgrade call is made for the request.
C35_CanvasUpgradeGated ==
  /\ (upgradeLast.called /\ upgradeLast.outcome.upgradedAs = "canvas")
       => (UpgradeCanvasCall /\ upgradeLast.authorized /\ upgradeLast.ok.ok)
  /\ (UpgradeCanvasCall /\ ~upgradeLast.ok.ok)
       => /\ upgradeLast.authorized
          /\ upgradeLast.outcome.attempts = <<>>
          /\ upgradeLast.outcome.upgradedAs = "none"
          /\ ~sockets[upgradeLast.ws].upgraded
          /\ upgradeLast.outcome.status = IF upgradeLast.ok.rateLimited THEN 429 ELSE 401
          /\ (upgradeLast.outcome.retryAfter # 0)
               <=> (upgradeLast.ok.rateLimited /\ upgradeLast.ok.retryAfterMs > 0)
          /\ upgradeLast.outcome.retryAfter # 0
               => /\ upgradeLast.outcome.retryAfter * 1000 >= upgradeLast.ok.retryAfterMs
                  /\ (upgradeLast.outcome.retryAfter - 1) * 1000 < upgradeLast.ok.retryAfterMs

\* C35 witness: a canvas upgrade request was denied with a token mismatch
\* and answered 401 without any server.upgrade call, while another socket
\* is upgraded as a canvas socket.
C35_Witness ==
  /\ UpgradeCanvasCall
  /\ upgradeLast.ok.reason = "token_mismatch"
  /\ upgradeLast.outcome.status = 401
  /\ upgradeLast.outcome.attempts = <<>>
  /\ \E ws \in SocketIds : sockets[ws].upgraded /\ sockets[ws].isCanvas

(***************************************************************************)
(* Response shim: the first end() decides the Response                     *)
(***************************************************************************)
\* C36: each ordinary request resolves to at most one Response: the first
\* end() on the shim fixes the response, and every later end(), by a stage
\* writing after another one answered or by the router's 404 / 500 fallback,
\* has no effect on the response sent.
C36_FirstEndDecides ==
  /\ shimCall.res.hasResolved <=> shimCall.ends # <<>>
  /\ shimCall.res.hasResolved <=> shimCall.res.response # 0
  /\ shimCall.ends # <<>> => shimCall.res.response = shimCall.ends[1]

\* C36 witness: a stage answered 202, a later stage wrote 400 and the router
\* reached its 404 fallback; the response sent is the 202.
C36_Witness ==
  /\ shimCall.pc = "done"
  /\ shimCall.ends = <<202, 400, 404>>
  /\ shimCall.res.response = 202

(***************************************************************************)
(* Hooks handler: the claimed signal and the response                      *)
(***************************************************************************)
\* The calls of the handler that have returned.
HookReturnedCalls == {slot \in AllHookSlots : hookCalls[slot].pc = "done"}

\* The request of a call is outside the handler's reach: no hooks
\* configuration, or a path that is neither the base path nor below it.
HookNotForHandler(call) ==
  ~call.req.config.enabled \/ ~isUnderHooksBasePath(call.req.pathname, HOOKS_BASE_PATH)

\* C37: the hooks handler returns false without writing a response exactly
\* when the hooks configuration is absent or the path is neither the base path
\* nor below it; in every other case it returns true after ending the response
\* once, and nothing is written before the stretch that returns.
C37_ClaimedIffUnderBase ==
  /\ \A slot \in HookReturnedCalls :
       /\ hookCalls[slot].claimed <=> ~HookNotForHandler(hookCalls[slot])
       /\ hookCalls[slot].claimed <=> hookCalls[slot].res # NoHookResponse
       /\ hookCalls[slot].claimed => hookCalls[slot].res.status # 0
  /\ \A slot \in AllHookSlots \ HookReturnedCalls :
       ~hookCalls[slot].claimed /\ hookCalls[slot].res = NoHookResponse

\* C37 witness: a request for an unknown sub-path, with no mapping rules
\* configured, was answered 404 by the handler and claimed.
C37_Witness ==
  \E slot \in HookReturnedCalls :
    /\ hookCalls[slot].req.pathname = <<"hooks", "github">>
    /\ ~hookCalls[slot].req.config.hasMappings
    /\ hookCalls[slot].body.ok
    /\ hookCalls[slot].res.status = 404
    /\ hookCalls[slot].claimed

(***************************************************************************)
(* Hooks handler: the reserved sub-paths bypass the mapping rules          *)
(***************************************************************************)
\* applyHookMappings was called by the call: it is awaited or has settled.
HookMappingsEvaluated(call) == call.pc = "mapping" \/ call.mapped # NoMapping

\* C38: for a sub-path that is exactly `wake` or `agent` the mapping rules are
\* never evaluated, also when the payload fails to normalise (400); they are
\* evaluated only for other non-empty sub-paths.
C38_ReservedPathsBypassMappings ==
  \A slot \in AllHookSlots :
    HookMappingsEvaluated(hookCalls[slot]) =>
      /\ hookSubPath(hookCalls[slot].req.pathname, HOOKS_BASE_PATH)
           \notin {<<>>, <<"wake">>, <<"agent">>}
      /\ hookCalls[slot].req.config.hasMappings
      /\ hookCalls[slot].body.ok

\* C38 witness: with mapping rules configured, a wake request whose payload
\* has no text was answered 400 and the rules were not evaluated.
C38_Witness ==
  \E slot \in AllHookSlots :
    /\ hookCalls[slot].pc = "done"
    /\ hookCalls[slot].req.pathname = <<"hooks", "wake">>
    /\ hookCalls[slot].req.config.hasMappings
    /\ hookCalls[slot].body.ok /\ ~normalizeWakePayload(hookCalls[slot].body.value).ok
    /\ hookCalls[slot].res.status = 400
    /\ ~HookMappingsEvaluated(hookCalls[slot])

(***************************************************************************)
(* Websocket callbacks: canvas sockets and gateway sockets are kept apart  *)
(***************************************************************************)
\* The raw sockets whose shim is in BunWebSocketServer.clients.
WsGatewaySockets == {ws \in SocketIds : sockets[ws].shim # NoShim /\ sockets[ws].shim \in wssClients}

\* The last callback ran for a socket tagged isCanvas.
WsLastWasCanvas ==
  wsLast.op \in {"open", "message", "close"} /\ sockets[wsLast.ws].isCanvas

ArgvIsLongFlag(args, p) == tokenStartsWith(args[p], <<"-", "-">>) /\ Len(args[p]) > 2

ArgvIsShortCluster(args, p) ==
  tokenStartsWith(args[p], <<"-">>) /\ ~tokenStartsWith(args[p], <<"-", "-">>)
    /\ Len(args[p]) > 1

\* The part of a long flag before `=` (the token itself without one).
ArgvLongFlagName(token) ==
  IF \E i \in DOMAIN token : token[i] = "="
  THEN SubSeq(token, 1, (CHOOSE i \in DOMAIN token :
                           token[i] = "=" /\ \A j \in 1..(i - 1) : token[j] # "=") - 1)
  ELSE token

\* The places of a cluster's value-flag letters.
ArgvValueLetters(token, profile) ==
  {j \in 2..Len(token) : <<"-", token[j]>> \in profile.valueFlags}

\* The token at p is a flag that takes the following token as its value.
ArgvTakesNextToken(args, profile, p) ==
  \/ /\ ArgvIsLongFlag(args, p)
     /\ ArgvLongFlagName(args[p]) = args[p]
     /\ args[p] \in profile.valueFlags
  \/ /\ ArgvIsShortCluster(args, p)
     /\ ArgvValueLetters(args[p], profile) # {}
     /\ \A j \in ArgvValueLetters(args[p], profile) : j = Len(args[p])

\* The positions the scan stops at, up to the first `--` it stops at.
RECURSIVE ArgvScanFrom(_, _, _)
ArgvScanFrom(args, profile, p) ==
  IF p > Len(args) THEN {}
  ELSE IF args[p] = <<"-", "-">> THEN {p}
  ELSE {p} \cup ArgvScanFrom(args, profile,
                             IF ArgvTakesNextToken(args, profile, p) THEN p + 2 ELSE p + 1)

ArgvScanned == ArgvScanFrom(argvCall.args, argvCall.profile, 1)

\* The positions after the `--` the scan stopped at.
ArgvAfterDashDash ==
  {q \in DOMAIN argvCall.args :
     \E p \in ArgvScanned : argvCall.args[p] = <<"-", "-">> /\ p < q}

\* The positions of the positional tokens.
ArgvPositionals ==
  {p \in ArgvScanned \cup ArgvAfterDashDash :
     /\ argvCall.args[p] \notin {<<>>, <<"-">>}
     /\ p \in ArgvScanned => ~tokenStartsWith(argvCall.args[p], <<"-">>)}

\* The values the flags consume: after `=`, inline in a cluster, or the
\* token that follows a value flag.
ArgvFlagValues ==
  LET args == argvCall.args
      profile == argvCall.profile
  IN {SubSeq(args[p], Len(ArgvLongFlagName(args[p])) + 2, Len(args[p])) :
        p \in {q \in ArgvScanned : ArgvIsLongFlag(args, q)
                                    /\ ArgvLongFlagName(args[q]) # args[q]}}
     \cup {SubSeq(args[p], (CHOOSE j \in ArgvValueLetters(args[p], profile) :
                              \A k \in ArgvValueLetters(args[p], profile) : j <= k) + 1,
                  Len(args[p])) :
             p \in {q \in ArgvScanned : ArgvIsShortCluster(args, q)
                                         /\ ArgvValueLetters(args[q], profile) # {}}}
     \cup {args[p + 1] :
             p \in {q \in ArgvScanned : ArgvTakesNextToken(args, profile, q)
                                         /\ q + 1 \in DOMAIN args}}

\* A long flag before `--` is blocked, by itself or by its part before `=`.
ArgvHasBlockedLongFlag ==
  \E p \in ArgvScanned :
    /\ ArgvIsLongFlag(argvCall.args, p)
    /\ ArgvLongFlagName(argvCall.args[p]) \in argvCall.profile.blockedFlags

\* A cluster before `--` holds a blocked letter with no value-flag letter
\* before it.
ArgvHasBlockedShortFlag ==
  \E p \in ArgvScanned :
    /\ ArgvIsShortCluster(argvCall.args, p)
    /\ \E j \in 2..Len(argvCall.args[p]) :
         /\ <<"-", argvCall.args[p][j]>> \in argvCall.profile.blockedFlags
         /\ \A k \in ArgvValueLetters(argvCall.args[p], argvCall.profile) : k >= j

ArgvUnsafeText(value) == isPathLikeToken(value) \/ hasGlobToken(value)

\* C40: validateSafeBinArgv returns false for every argv in which, before any
\* `--`, a long flag is blocked (itself or its part before `=`) or a cluster
\* holds a blocked letter before any value-flag letter, and for every argv in
\* which a positional token or a value consumed by a flag is path-like or
\* holds a glob character; it returns true only if the number of positionals
\* lies within minPositional..maxPositional.
C40_SafeBinArgvRejects ==
  argvCall.called =>
    /\ ArgvHasBlockedLongFlag => ~argvCall.result
    /\ ArgvHasBlockedShortFlag => ~argvCall.result
    /\ (\E p \in ArgvPositionals : ArgvUnsafeText(argvCall.args[p])) => ~argvCall.result
    /\ (\E value \in ArgvFlagValues : ArgvUnsafeText(value)) => ~argvCall.result
    /\ argvCall.result
         => /\ Cardinality(ArgvPositionals) >= argvCall.profile.minPositional
            /\ \/ argvCall.profile.maxPositional = NoMaxPositional
               \/ Cardinality(ArgvPositionals) <= argvCall.profile.maxPositional

\* C40 witness: under the grep profile, `--count --file=x` was rejected for
\* the blocked `--file` before the `=`.
C40_Witness ==
  /\ argvCall.called
  /\ argvCall.profile = SAFE_BIN_PROFILE_GREP
  /\ argvCall.args = << <<"-", "-", "c", "o", "u", "n", "t">>,
                        <<"-", "-", "f", "i", "l", "e", "=", "x">> >>
  /\ ArgvHasBlockedLongFlag
  /\ ~argvCall.result

====
